---- MODULE Spec2Model ----
(***************************************************************************)
(* Founder Matchmaker: the Matching Engine.                                *)
(*                                                                         *)
(* The store is the Postgres schema of prisma/migrations/001_init; every   *)
(* prisma call of a route handler is one autocommitted statement, so a     *)
(* handler is a sequence of storage steps that interleave with the steps   *)
(* of the other requests in flight.                                        *)
(***************************************************************************)
EXTENDS Integers, FiniteSets, Sequences, TLC

\* ------------------------------------------------------------------ bounds
\* Number of POST /like requests of one behaviour (request slots 1..MaxReq).
MaxReq == 2
\* Users with a profile row are 1..NumUsers.
NumUsers == 3

\* ------------------------------------------------------------- identifiers
\* A well-formed uuid that names no profile row (also: an authenticated
\* account that has not created its profile yet).
UnknownId == 0
\* A toUserId that is not a uuid string.
Malformed == 0 - 1
\* supabase.auth.getUser() returned no user.
NoUser == 0 - 2

Req == 1 .. MaxReq
ProfileIds == 1 .. NumUsers
\* Ids an authenticated session can carry.
AuthIds == ProfileIds \cup {UnknownId}
Callers == AuthIds \cup {NoUser}
\* Values a request body can give for toUserId.
BodyIds == AuthIds \cup {Malformed}

VARIABLES
    users,      \* table users: the ids that have a row
    likes,      \* table likes: rows [id, fromId, toId]
    matches,    \* table matches: rows [id, userAId, userBId, active]
    pc,         \* per request: the statement the handler is about to run
    caller,     \* per request: user.id of the session (NoUser if none)
    toUserId,   \* per request: body.toUserId
    like,       \* per request: id of the row `like` holds (0 = unset)
    mutualLike, \* per request: whether `mutualLike` is a row
    response,   \* per request: the NextResponse returned (status 0 = none yet)
    profile,    \* table users with its offers, looking_for and skill_on_user rows
    result,     \* the value calculateMatchScore returned (score -1 = not called)
    messages,   \* table messages: rows [id, matchId, senderId, createdAt]
    broadcasts, \* payloads sent on the realtime channels: [channel, payload]
    msg,        \* per messages request: the locals of the GET / POST handler
    feed,       \* the locals of the GET /recommendations handler
    owned,      \* rows of reports, startups, skill_on_user, offers, looking_for:
                \* [table, userId], userId the reporter or owner
    erase,      \* the locals of the DELETE /delete-account handler
    shown,      \* the locals of the GET /matches handler
    skills,     \* table skills: rows [id, name]
    skillOnUser,\* table skill_on_user as POST /profile writes it: [id, userId, skillId]
    upd,        \* per profile update: the locals of the POST /profile handler
    inv         \* the locals of the GET /invitations handler

store == <<users, likes, matches>>
locals == <<pc, caller, toUserId, like, mutualLike, response>>
\* What the POST /like handler neither reads nor writes.
ext == <<profile, result, messages, broadcasts, msg, feed, owned, erase, shown,
        skills, skillOnUser, upd, inv>>
\* What the messages, recommendations and scoring code neither reads nor writes.
acct == <<owned, erase, shown, skills, skillOnUser, upd, inv>>
\* What the erasure and the matches list neither read nor write.
prof == <<skills, skillOnUser, upd, inv>>
vars == <<users, likes, matches, pc, caller, toUserId, like, mutualLike, response,
          profile, result, messages, broadcasts, msg, feed, owned, erase, shown,
          skills, skillOnUser, upd, inv>>

\* ------------------------------------------------------------------ schema
\* z.string().uuid()
IsUuid(s) == s >= 0

\* likes_fromId_toId_key: the rows a (fromId, toId) key selects.
LikeRows(t, f, x) == {l \in t : l.fromId = f /\ l.toId = x}
\* prisma.like.findUnique({ where: { fromId_toId } }) returned a row.
LikeFound(t, f, x) == LikeRows(t, f, x) # {}

\* matches_userAId_userBId_key: the rows an ordered (userAId, userBId) key selects.
MatchRows(t, a, b) == {m \in t : m.userAId = a /\ m.userBId = b}
\* The rows of the unordered pair {a, b}, in either storage order.
PairMatches(t, a, b) == MatchRows(t, a, b) \cup MatchRows(t, b, a)

\* The insert with likes_fromId_toId_key dropped from the schema.
LikeInsertOk_NoUniqueIndex(f, x) ==
    /\ f \in users
    /\ x \in users

\* INSERT INTO likes: rejected by likes_fromId_toId_key, likes_fromId_fkey
\* and likes_toId_fkey.
LikeInsertOk(f, x) ==
    /\ ~LikeFound(likes, f, x)
    /\ f \in users
    /\ x \in users

\* INSERT INTO matches: rejected by matches_userAId_userBId_key and the two
\* foreign keys.
MatchInsertOk(a, b) ==
    /\ MatchRows(matches, a, b) = {}
    /\ a \in users
    /\ b \in users

\* ---------------------------------------------------------------- responses
NoResponse == [status |-> 0, error |-> "", isMatch |-> FALSE, like |-> 0, match |-> 0]
ErrorResponse(s, e) == [status |-> s, error |-> e, isMatch |-> FALSE, like |-> 0, match |-> 0]
LikeResponse(l, m) == [status |-> 200, error |-> "", isMatch |-> m # 0, like |-> l, match |-> m]

Finish(r, resp) ==
    /\ pc' = [pc EXCEPT ![r] = "done"]
    /\ response' = [response EXCEPT ![r] = resp]

\* ---------------------------------------------------------------- profiles
\* users.availability IS NULL.
NoAvailability == 0 - 1

\* A users row as the routes load it: tags and skill names in row order, a
\* NULL location as "", bio and headline by whether they are truthy.
NoProfile ==
    [offers |-> <<>>, lookingFor |-> <<>>, skills |-> <<>>, location |-> "",
     availability |-> NoAvailability, bio |-> FALSE, headline |-> FALSE]

\* ------------------------------------------------------ calculateMatchScore
\* The terms are fractions with denominators 10 and 6: kept as integers in
\* units of 1/Units. Halves are exact in IEEE doubles and every other sum is
\* at least 1/30 away from a half, so Math.round sees the exact value.
Units == 30

Min2(a, b) == IF a <= b THEN a ELSE b
Max2(a, b) == IF a >= b THEN a ELSE b
\* Math.abs
Abs(a) == IF a >= 0 THEN a ELSE 0 - a

\* Array.prototype.includes
Includes(xs, x) == \E i \in DOMAIN xs : xs[i] = x
\* xs.filter(x => ys.includes(x)).length: every position of xs counts.
\* A count of the different tags of xs found in ys, not of its entries.
FilterCount_Distinct(xs, ys) ==
    Cardinality({x \in {xs[i] : i \in DOMAIN xs} : Includes(ys, x)})

\* xs.filter(x => ys.includes(x)).length
FilterCount(xs, ys) == Cardinality({i \in DOMAIN xs : Includes(ys, xs[i])})

OfferOverlap(user1, user2) == FilterCount(user1.offers, user2.lookingFor)
LookingForOverlap(user1, user2) == FilterCount(user1.lookingFor, user2.offers)

\* The tag term without Math.min.
TagScore_NoCap(user1, user2) ==
    (OfferOverlap(user1, user2) + LookingForOverlap(user1, user2)) * 8

\* Math.min(40, (offerOverlap + lookingForOverlap) * 8)
TagScore(user1, user2) ==
    Min2(40, (OfferOverlap(user1, user2) + LookingForOverlap(user1, user2)) * 8)

SkillOverlap(user1, user2) == FilterCount(user1.skills, user2.skills)
\* Math.min(20, skillOverlap * 4)
SkillScore(user1, user2) == Min2(20, SkillOverlap(user1, user2) * 4)

\* if (user1.location && user2.location): 10 when equal, else 5; otherwise
\* the term is not added.
LocationScore(user1, user2) ==
    IF user1.location # "" /\ user2.location # ""
      THEN (IF user1.location = user2.location THEN 10 ELSE 5)
      ELSE 0

\* A number is truthy when it is neither null nor 0.
TruthyNumber(n) == n # NoAvailability /\ n # 0

\* if (user1.availability && user2.availability):
\* Math.max(0, 10 - availabilityDiff / 10), in 1/Units; otherwise not added.
AvailabilityScore(user1, user2) ==
    IF TruthyNumber(user1.availability) /\ TruthyNumber(user2.availability)
      THEN Max2(0, 10 * Units - Abs(user1.availability - user2.availability) * (Units \div 10))
      ELSE 0

\* [bio, headline, location, skills.length > 0, offers.length > 0,
\*  lookingFor.length > 0].filter(Boolean).length
Completeness(user2) ==
    Cardinality({k \in 1 .. 6 :
        \/ k = 1 /\ user2.bio
        \/ k = 2 /\ user2.headline
        \/ k = 3 /\ user2.location # ""
        \/ k = 4 /\ Len(user2.skills) > 0
        \/ k = 5 /\ Len(user2.offers) > 0
        \/ k = 6 /\ Len(user2.lookingFor) > 0})

\* (user2Completeness / 6) * 5, in 1/Units.
CompletenessScore(user2) == Completeness(user2) * 5 * (Units \div 6)

\* Rounding toward zero instead of to the nearest integer.
Round_Truncates(x) == x \div Units

\* Math.round of x / Units for x >= 0: halves round up.
Round(x) == (2 * x + Units) \div (2 * Units)

Reason(text, n) == [text |-> text, n |-> n]

\* reasons.slice(0, 3)
Slice3(xs) == SubSeq(xs, 1, Min2(3, Len(xs)))

\* The pushes onto `reasons`, in the order of the function body.
Reasons(user1, user2) ==
    (IF OfferOverlap(user1, user2) > 0
       THEN <<Reason("matching skills/offers", OfferOverlap(user1, user2))>> ELSE <<>>)
    \o (IF SkillOverlap(user1, user2) > 0
       THEN <<Reason("shared skills", SkillOverlap(user1, user2))>> ELSE <<>>)
    \o (IF LocationScore(user1, user2) = 10
       THEN <<Reason("Same location", 0)>> ELSE <<>>)
    \o (IF AvailabilityScore(user1, user2) > 7 * Units
       THEN <<Reason("Similar availability", 0)>> ELSE <<>>)
    \o (IF CompletenessScore(user2) > 4 * Units
       THEN <<Reason("Complete profile", 0)>> ELSE <<>>)

\* The returned { score, reasons }, with the terms the body added to `score`
\* (availability and completeness in 1/Units).
calculateMatchScore(user1, user2) ==
    [score |-> Round(Units * (TagScore(user1, user2) + SkillScore(user1, user2)
                              + LocationScore(user1, user2))
                     + AvailabilityScore(user1, user2) + CompletenessScore(user2)),
     reasons |-> Slice3(Reasons(user1, user2)),
     tagScore |-> TagScore(user1, user2),
     skillScore |-> SkillScore(user1, user2),
     locationScore |-> LocationScore(user1, user2),
     availabilityScore |-> AvailabilityScore(user1, user2),
     completenessScore |-> CompletenessScore(user2)]

\* calculateMatchScore has not been called.
NoResult ==
    [score |-> 0 - 1, reasons |-> <<>>, tagScore |-> 0, skillScore |-> 0,
     locationScore |-> 0, availabilityScore |-> 0, completenessScore |-> 0]

\* ------------------------------------------------- request handlers' locals
\* Number of /matches/{id}/messages requests of one behaviour.
MaxMsgReq == 2
MsgReq == 1 .. MaxMsgReq

\* No message: ids of messages rows are 0 (seeded) or a request's number.
NoMessage == 0 - 1
NoMsgResponse == [status |-> 0, error |-> "", list |-> <<>>, message |-> NoMessage]
IdleMsg ==
    [pc |-> "idle", method |-> "", caller |-> NoUser, matchId |-> 0,
     body |-> 0, message |-> NoMessage, response |-> NoMsgResponse]

NoEraseResponse == [status |-> 0, error |-> "", deleted |-> FALSE]
IdleErase == [pc |-> "idle", caller |-> NoUser, response |-> NoEraseResponse]

NoShownResponse == [status |-> 0, error |-> "", list |-> <<>>]
IdleShown == [pc |-> "idle", caller |-> NoUser, found |-> <<>>, response |-> NoShownResponse]

\* Profile updates in flight.
MaxUpdReq == 2
UpdReq == 1 .. MaxUpdReq

NoUpdResponse == [status |-> 0, error |-> "", skills |-> {}]
\* `skills` is body.skills cut at its commas, `skillNames` what is left of the
\* loop's list, `found` what the upsert's lookup saw, `native` whether
\* prisma.skill.upsert runs as one INSERT ... ON CONFLICT statement.
IdleUpd ==
    [pc |-> "idle", caller |-> NoUser, skills |-> <<>>, skillNames |-> <<>>,
     found |-> FALSE, native |-> TRUE, response |-> NoUpdResponse]

NoInvResponse == [status |-> 0, error |-> "", list |-> <<>>]
IdleInv == [pc |-> "idle", caller |-> NoUser, receivedLikes |-> <<>>, response |-> NoInvResponse]

NoFeedResponse == [status |-> 0, error |-> "", list |-> <<>>]
\* `before` keeps the answer to the viewer's previous call, if there was one.
IdleFeed ==
    [pc |-> "idle", caller |-> NoUser, likedUserIds |-> {},
     response |-> NoFeedResponse, before |-> NoFeedResponse]

TypeOK ==
    /\ users \subseteq AuthIds
    /\ \A l \in likes : l.id \in Req /\ l.fromId \in AuthIds /\ l.toId \in AuthIds
    /\ \A m \in matches : m.id \in Req /\ m.userAId \in AuthIds /\ m.userBId \in AuthIds
    /\ caller \in [Req -> Callers]
    /\ toUserId \in [Req -> BodyIds]
    /\ like \in [Req -> 0 .. MaxReq]
    /\ mutualLike \in [Req -> BOOLEAN]

Init ==
    /\ users = ProfileIds
    /\ likes = {}
    /\ matches = {}
    /\ pc = [r \in Req |-> "idle"]
    /\ caller = [r \in Req |-> NoUser]
    /\ toUserId = [r \in Req |-> Malformed]
    /\ like = [r \in Req |-> 0]
    /\ mutualLike = [r \in Req |-> FALSE]
    /\ response = [r \in Req |-> NoResponse]
    /\ profile = [u \in ProfileIds |-> NoProfile]
    /\ result = NoResult
    /\ messages = {}
    /\ broadcasts = {}
    /\ msg = [m \in MsgReq |-> IdleMsg]
    /\ feed = IdleFeed
    /\ owned = {}
    /\ erase = IdleErase
    /\ shown = IdleShown
    /\ skills = {}
    /\ skillOnUser = {}
    /\ upd = [p \in UpdReq |-> IdleUpd]
    /\ inv = IdleInv

\* ------------------------------------------------------- POST /like handler
\* The handler without its self-like test.
SelfLike_Never(c, t) == FALSE

\* user.id === toUserId
SelfLike(c, t) == c = t

\* The handler without its 404 branch.
TargetMissing_Never(t) == FALSE

\* !targetUser, for targetUser = prisma.user.findUnique({ where: { id } })
TargetMissing(t) == t \notin users

\* The reverse lookup made with the caller's own (fromId, toId).
MutualKey_SameDirection(c, t) == <<c, t>>
\* The reverse lookup made with toUserId in both fields.
MutualKey_TargetTwice(c, t) == <<t, t>>

\* The key of the reverse like looked up after the insert.
MutualKey(c, t) == <<t, c>>

\* A row written with active = false.
NewMatch_Inactive(r, c, t) == [id |-> r, userAId |-> c, userBId |-> t, active |-> FALSE]

\* The row prisma.match.create writes for the caller c and the target t.
NewMatch(r, c, t) == [id |-> r, userAId |-> c, userBId |-> t, active |-> TRUE]

\* Requests are numbered in their order of arrival.
Arrives(r) ==
    /\ pc[r] = "idle"
    /\ \A q \in Req : q < r => pc[q] # "idle"

\* No handler is between its first and its last statement.
Quiet == \A q \in Req : pc[q] \in {"idle", "done"}

\* Session lookup, body parsing and the self-like test: no storage access.
LikeStart(r) ==
    /\ Arrives(r)
    /\ \E c \in Callers, t \in BodyIds :
        /\ caller' = [caller EXCEPT ![r] = c]
        /\ toUserId' = [toUserId EXCEPT ![r] = IF c = NoUser THEN Malformed ELSE t]
        /\ IF c = NoUser
             THEN Finish(r, ErrorResponse(401, "Unauthorized"))
           ELSE IF ~IsUuid(t)
             THEN Finish(r, ErrorResponse(500, "Internal server error"))
           ELSE IF SelfLike(c, t)
             THEN Finish(r, ErrorResponse(400, "Cannot like yourself"))
           ELSE /\ pc' = [pc EXCEPT ![r] = "findTarget"]
                /\ UNCHANGED response
    /\ UNCHANGED <<users, likes, matches, like, mutualLike>>
    /\ UNCHANGED ext

\* prisma.user.findUnique on the target.
LikeFindTarget(r) ==
    /\ pc[r] = "findTarget"
    /\ IF TargetMissing(toUserId[r])
         THEN Finish(r, ErrorResponse(404, "User not found"))
         ELSE /\ pc' = [pc EXCEPT ![r] = "findExisting"]
              /\ UNCHANGED response
    /\ UNCHANGED <<users, likes, matches, caller, toUserId, like, mutualLike>>
    /\ UNCHANGED ext

\* The handler without its duplicate check: it goes straight to the insert.
LikeFindExisting_NoCheck(r) ==
    /\ pc[r] = "findExisting"
    /\ pc' = [pc EXCEPT ![r] = "likeCreate"]
    /\ UNCHANGED <<users, likes, matches, caller, toUserId, like, mutualLike, response>>
    /\ UNCHANGED ext

\* prisma.like.findUnique on (user.id, toUserId).
LikeFindExisting(r) ==
    /\ pc[r] = "findExisting"
    /\ IF LikeFound(likes, caller[r], toUserId[r])
         THEN Finish(r, ErrorResponse(400, "Already liked this user"))
         ELSE /\ pc' = [pc EXCEPT ![r] = "likeCreate"]
              /\ UNCHANGED response
    /\ UNCHANGED <<users, likes, matches, caller, toUserId, like, mutualLike>>
    /\ UNCHANGED ext

\* prisma.like.create; a rejected insert throws into the catch block.
\* A row written with the two ids the wrong way round.
NewLike_FromTarget(r) == [id |-> r, fromId |-> toUserId[r], toId |-> caller[r]]

\* data: { fromId: user.id, toId: toUserId }
NewLike(r) == [id |-> r, fromId |-> caller[r], toId |-> toUserId[r]]

LikeCreate(r) ==
    /\ pc[r] = "likeCreate"
    /\ IF LikeInsertOk(caller[r], toUserId[r])
         THEN /\ likes' = likes \cup {NewLike(r)}
              /\ like' = [like EXCEPT ![r] = r]
              /\ pc' = [pc EXCEPT ![r] = "findMutual"]
              /\ UNCHANGED response
         ELSE /\ Finish(r, ErrorResponse(500, "Internal server error"))
              /\ UNCHANGED <<likes, like>>
    /\ UNCHANGED <<users, matches, caller, toUserId, mutualLike>>
    /\ UNCHANGED ext

\* prisma.like.findUnique on (toUserId, user.id); without a row the handler
\* answers isMatch: false.
LikeFindMutual(r) ==
    /\ pc[r] = "findMutual"
    /\ LET k == MutualKey(caller[r], toUserId[r])
           found == LikeFound(likes, k[1], k[2])
       IN /\ mutualLike' = [mutualLike EXCEPT ![r] = found]
          /\ IF found
               THEN /\ pc' = [pc EXCEPT ![r] = "matchCreate"]
                    /\ UNCHANGED response
               ELSE Finish(r, LikeResponse(like[r], 0))
    /\ UNCHANGED <<users, likes, matches, caller, toUserId, like>>
    /\ UNCHANGED ext

\* prisma.match.create with userAId = user.id, userBId = toUserId.
LikeMatchCreate(r) ==
    /\ pc[r] = "matchCreate"
    /\ IF MatchInsertOk(caller[r], toUserId[r])
         THEN /\ matches' = matches \cup {NewMatch(r, caller[r], toUserId[r])}
              /\ Finish(r, LikeResponse(like[r], r))
         ELSE /\ Finish(r, ErrorResponse(500, "Internal server error"))
              /\ UNCHANGED matches
    /\ UNCHANGED <<users, likes, caller, toUserId, like, mutualLike>>
    /\ UNCHANGED ext

\* Any awaited prisma call can reject (connection lost, timeout): the catch
\* block answers 500 and nothing already written is undone.
StorageFail(r) ==
    /\ pc[r] \in {"findTarget", "findExisting", "likeCreate", "findMutual", "matchCreate"}
    /\ Finish(r, ErrorResponse(500, "Internal server error"))
    /\ UNCHANGED <<users, likes, matches, caller, toUserId, like, mutualLike>>
    /\ UNCHANGED ext

\* Every storage call resolves.
Next ==
    \E r \in Req :
        \/ LikeStart(r)
        \/ LikeFindTarget(r)
        \/ LikeFindExisting(r)
        \/ LikeCreate(r)
        \/ LikeFindMutual(r)
        \/ LikeMatchCreate(r)

Spec == Init /\ [][Next]_vars

\* Storage calls may also reject.
NextFault ==
    \E r \in Req :
        \/ LikeStart(r)
        \/ LikeFindTarget(r)
        \/ LikeFindExisting(r)
        \/ LikeCreate(r)
        \/ LikeFindMutual(r)
        \/ LikeMatchCreate(r)
        \/ StorageFail(r)

SpecFault == Init /\ [][NextFault]_vars

\* The calls made one after the other, every storage call resolving: a
\* request arrives only when no handler is running.
LikeStartSeq(r) == Quiet /\ LikeStart(r)

NextSeq ==
    \E r \in Req :
        \/ LikeStartSeq(r)
        \/ LikeFindTarget(r)
        \/ LikeFindExisting(r)
        \/ LikeCreate(r)
        \/ LikeFindMutual(r)
        \/ LikeMatchCreate(r)

SpecSeq == Init /\ [][NextSeq]_vars

\* ------------------------------------------------- scoring, call by call
\* Profiles the scoring function is applied to. Tag and skill lists reach
\* past the caps (6 overlapping tags, 6 shared skills), repeat a tag, and
\* hold the lists of the documented example.
ViewerOffers == {<<>>, <<"Backend Development">>,
                 <<"Backend Development", "Backend Development">>,
                 <<"Backend Development", "Marketing", "Sales">>}
ViewerLookingFor == {<<>>, <<"Marketing">>, <<"Backend Development", "Marketing", "Sales">>}
CandidateOffers == {<<>>, <<"Marketing">>, <<"Backend Development", "Marketing", "Sales">>}
CandidateLookingFor == {<<>>, <<"Backend Development">>,
                        <<"Backend Development", "Marketing", "Sales">>}
SixSkills == <<"React", "Node.js", "TypeScript", "PostgreSQL", "AWS", "Python">>
ViewerSkills == {<<>>, <<"React", "Node.js">>, SixSkills}
CandidateSkills == {<<>>, <<"React">>, SixSkills}
ViewerLocations == {"", "SF"}
CandidateLocations == {"", "SF", "NYC"}
ViewerAvailability == {NoAvailability, 0, 80, 100}
CandidateAvailability == {NoAvailability, 1, 85, 100}

ViewerProfiles ==
    [offers : ViewerOffers, lookingFor : ViewerLookingFor, skills : ViewerSkills,
     location : ViewerLocations, availability : ViewerAvailability,
     bio : {FALSE}, headline : {FALSE}]
CandidateProfiles ==
    [offers : CandidateOffers, lookingFor : CandidateLookingFor, skills : CandidateSkills,
     location : CandidateLocations, availability : CandidateAvailability,
     bio : BOOLEAN, headline : BOOLEAN]

\* User 1 is the viewer (user1) and user 2 the candidate (user2).
InitScore ==
    /\ users = ProfileIds
    /\ likes = {}
    /\ matches = {}
    /\ pc = [r \in Req |-> "idle"]
    /\ caller = [r \in Req |-> NoUser]
    /\ toUserId = [r \in Req |-> Malformed]
    /\ like = [r \in Req |-> 0]
    /\ mutualLike = [r \in Req |-> FALSE]
    /\ response = [r \in Req |-> NoResponse]
    /\ \E v \in ViewerProfiles, c \in CandidateProfiles :
          profile = [u \in ProfileIds |-> IF u = 1 THEN v ELSE IF u = 2 THEN c ELSE NoProfile]
    /\ result = NoResult
    /\ messages = {}
    /\ broadcasts = {}
    /\ msg = [m \in MsgReq |-> IdleMsg]
    /\ feed = IdleFeed
    /\ owned = {}
    /\ erase = IdleErase
    /\ shown = IdleShown
    /\ skills = {}
    /\ skillOnUser = {}
    /\ upd = [p \in UpdReq |-> IdleUpd]
    /\ inv = IdleInv

\* const score = calculateMatchScore(currentUser, recommendation)
ScoreCall ==
    /\ result = NoResult
    /\ result' = calculateMatchScore(profile[1], profile[2])
    /\ UNCHANGED <<users, likes, matches, pc, caller, toUserId, like, mutualLike, response>>
    /\ UNCHANGED <<profile, messages, broadcasts, msg, feed>>
    /\ UNCHANGED acct

NextScore == ScoreCall

SpecScore == InitScore /\ [][NextScore]_vars

\* ------------------------------------- GET, POST /matches/{matchId}/messages
\* messageSchema: z.string().min(1).max(1000), on the body's length.
ValidBody(n) == n >= 1 /\ n <= 1000
\* Body lengths a request can carry: empty, accepted, one past the maximum.
BodyLengths == {0, 1, 1001}

\* Who calls the messages route: a user with a profile, or nobody signed in.
MsgCallers == ProfileIds \cup {NoUser}

\* A matchId path parameter: the id of a matches row, or one that names none.
PathIds == {x.id : x \in matches} \cup {UnknownId}

\* No gate at all.
CanAccess_Everyone(u, id) == TRUE

\* The gate without its active filter.
CanAccess_IgnoresActive(u, id) ==
    \E x \in matches : x.id = id /\ (x.userAId = u \/ x.userBId = u)

\* The gate without its participant filter.
CanAccess_AnyUser(u, id) ==
    \E x \in matches : x.id = id /\ x.active

\* prisma.match.findFirst({ where: { id, OR: [{ userAId }, { userBId }],
\* active: true } }) returned a row.
CanAccess(u, id) ==
    \E x \in matches : x.id = id /\ (x.userAId = u \/ x.userBId = u) /\ x.active

ErrorMsgResponse(n, e) == [status |-> n, error |-> e, list |-> <<>>, message |-> NoMessage]
ListResponse(rows) == [status |-> 200, error |-> "", list |-> rows, message |-> NoMessage]
MessageResponse(id) == [status |-> 200, error |-> "", list |-> <<>>, message |-> id]

\* A denial that tells a foreign match from a missing one.
GateDenied_Forbidden(u, id) ==
    IF \E x \in matches : x.id = id
      THEN ErrorMsgResponse(403, "Forbidden")
      ELSE ErrorMsgResponse(404, "Match not found")

\* if (!match) return 404
GateDenied(u, id) == ErrorMsgResponse(404, "Match not found")

\* orderBy: { createdAt: 'desc' }
Ordered_Descending(rows) ==
    \A i \in 1 .. Len(rows) - 1 : rows[i].createdAt >= rows[i + 1].createdAt

\* orderBy: { createdAt: 'asc' }
Ordered(rows) ==
    \A i \in 1 .. Len(rows) - 1 : rows[i].createdAt <= rows[i + 1].createdAt

\* The results prisma.message.findMany({ where: { matchId }, orderBy }) can
\* give: each row of the match once, rows of equal createdAt in any order.
FindMessages(id) ==
    LET rows == {x \in messages : x.matchId = id}
    IN {q \in [1 .. Cardinality(rows) -> rows] :
           /\ \A i, j \in DOMAIN q : i # j => q[i] # q[j]
           /\ Ordered(q)}

\* createdAt of the newest row; the clock does not run backwards.
Latest == IF messages = {} THEN 0
          ELSE CHOOSE t \in {x.createdAt : x \in messages} :
                   \A x \in messages : x.createdAt <= t

\* INSERT INTO messages: rejected by messages_matchId_fkey and
\* messages_senderId_fkey.
MessageInsertOk(id, u) ==
    /\ \E x \in matches : x.id = id
    /\ u \in users

\* A row whose sender is read off the match instead of the session.
NewMessage_SenderIsUserA(m, t) ==
    [id |-> m, matchId |-> msg[m].matchId,
     senderId |-> (CHOOSE x \in matches : x.id = msg[m].matchId).userAId,
     createdAt |-> t]

\* data: { matchId, senderId: user.id, body }
NewMessage(m, t) ==
    [id |-> m, matchId |-> msg[m].matchId, senderId |-> msg[m].caller, createdAt |-> t]

MsgArrives(m) ==
    /\ msg[m].pc = "idle"
    /\ \A q \in MsgReq : q < m => msg[q].pc # "idle"

MsgFinish(m, resp) ==
    msg' = [msg EXCEPT ![m].pc = "done", ![m].response = resp]

\* Session lookup and, for POST, messageSchema.parse: no storage access.
MsgStart(m) ==
    /\ MsgArrives(m)
    /\ \E method \in {"GET", "POST"}, c \in MsgCallers, id \in PathIds, n \in BodyLengths :
        /\ method = "GET" => n = 0
        /\ IF c = NoUser
             THEN msg' = [msg EXCEPT ![m].pc = "done", ![m].method = method,
                                     ![m].response = ErrorMsgResponse(401, "Unauthorized")]
           ELSE IF method = "POST" /\ ~ValidBody(n)
             THEN msg' = [msg EXCEPT ![m].pc = "done", ![m].method = method,
                                     ![m].caller = c, ![m].matchId = id, ![m].body = n,
                                     ![m].response = ErrorMsgResponse(500, "Internal server error")]
           ELSE msg' = [msg EXCEPT ![m].pc = "findMatch", ![m].method = method,
                                   ![m].caller = c, ![m].matchId = id, ![m].body = n]
    /\ UNCHANGED <<users, likes, matches, pc, caller, toUserId, like, mutualLike, response>>
    /\ UNCHANGED <<profile, result, messages, broadcasts, feed>>
    /\ UNCHANGED acct

\* prisma.match.findFirst: the gate.
MsgFindMatch(m) ==
    /\ msg[m].pc = "findMatch"
    /\ IF ~CanAccess(msg[m].caller, msg[m].matchId)
         THEN MsgFinish(m, GateDenied(msg[m].caller, msg[m].matchId))
         ELSE msg' = [msg EXCEPT ![m].pc = IF msg[m].method = "GET" THEN "findMany" ELSE "create"]
    /\ UNCHANGED <<users, likes, matches, pc, caller, toUserId, like, mutualLike, response>>
    /\ UNCHANGED <<profile, result, messages, broadcasts, feed>>
    /\ UNCHANGED acct

\* GET: prisma.message.findMany and the response.
MsgFindMany(m) ==
    /\ msg[m].pc = "findMany"
    /\ \E rows \in FindMessages(msg[m].matchId) : MsgFinish(m, ListResponse(rows))
    /\ UNCHANGED <<users, likes, matches, pc, caller, toUserId, like, mutualLike, response>>
    /\ UNCHANGED <<profile, result, messages, broadcasts, feed>>
    /\ UNCHANGED acct

\* POST: prisma.message.create with senderId = user.id.
MsgCreate(m) ==
    /\ msg[m].pc = "create"
    /\ IF MessageInsertOk(msg[m].matchId, msg[m].caller)
         THEN \E t \in {Latest, Latest + 1} :
                /\ t >= 1
                /\ messages' = messages \cup {NewMessage(m, t)}
                /\ msg' = [msg EXCEPT ![m].pc = "send", ![m].message = m]
         ELSE /\ MsgFinish(m, ErrorMsgResponse(500, "Internal server error"))
              /\ UNCHANGED messages
    /\ UNCHANGED <<users, likes, matches, pc, caller, toUserId, like, mutualLike, response>>
    /\ UNCHANGED <<profile, result, broadcasts, feed>>
    /\ UNCHANGED acct

\* POST: the broadcast on channel match-{matchId} and the response.
MsgSend(m) ==
    /\ msg[m].pc = "send"
    /\ broadcasts' = broadcasts \cup {[channel |-> msg[m].matchId, payload |-> msg[m].message]}
    /\ MsgFinish(m, MessageResponse(msg[m].message))
    /\ UNCHANGED <<users, likes, matches, pc, caller, toUserId, like, mutualLike, response>>
    /\ UNCHANGED <<profile, result, messages, feed>>
    /\ UNCHANGED acct

\* Stores the like route leaves behind for users 1 and 2: the match made by
\* the second of two calls in sequence (row 2), or both rows of two racing
\* calls. The active column is written by no route; either value can be
\* stored.
LikeLocalsAfter(raced) ==
    /\ pc = [r \in Req |-> IF r <= 2 THEN "done" ELSE "idle"]
    /\ caller = [r \in Req |-> IF r = 1 THEN 1 ELSE IF r = 2 THEN 2 ELSE NoUser]
    /\ toUserId = [r \in Req |-> IF r = 1 THEN 2 ELSE IF r = 2 THEN 1 ELSE Malformed]
    /\ like = [r \in Req |-> IF r <= 2 THEN r ELSE 0]
    /\ mutualLike = [r \in Req |-> (r = 2) \/ (r = 1 /\ raced)]
    /\ response = [r \in Req |->
          IF r = 1 THEN LikeResponse(1, IF raced THEN 1 ELSE 0)
          ELSE IF r = 2 THEN LikeResponse(2, 2)
          ELSE NoResponse]

\* A message the store already holds: row 0 of match 2, sent by user 1,
\* as prisma.message.createMany of the seed script writes sample messages.
SeedMessage == [id |-> 0, matchId |-> 2, senderId |-> 1, createdAt |-> 1]

InitMsg ==
    /\ users = ProfileIds
    /\ likes = {[id |-> 1, fromId |-> 1, toId |-> 2], [id |-> 2, fromId |-> 2, toId |-> 1]}
    /\ \E raced \in BOOLEAN, a1 \in BOOLEAN, a2 \in BOOLEAN :
          /\ ~raced => a1
          /\ matches = {[NewMatch(2, 2, 1) EXCEPT !.active = a2]}
                       \cup (IF raced THEN {[NewMatch(1, 1, 2) EXCEPT !.active = a1]} ELSE {})
          /\ LikeLocalsAfter(raced)
    /\ profile = [u \in ProfileIds |-> NoProfile]
    /\ result = NoResult
    /\ messages \in {{}, {SeedMessage}}
    /\ broadcasts = {}
    /\ msg = [m \in MsgReq |-> IdleMsg]
    /\ feed = IdleFeed
    /\ owned = {}
    /\ erase = IdleErase
    /\ shown = IdleShown
    /\ skills = {}
    /\ skillOnUser = {}
    /\ upd = [p \in UpdReq |-> IdleUpd]
    /\ inv = IdleInv

NextMsg ==
    \E m \in MsgReq :
        \/ MsgStart(m)
        \/ MsgFindMatch(m)
        \/ MsgFindMany(m)
        \/ MsgCreate(m)
        \/ MsgSend(m)

SpecMsg == InitMsg /\ [][NextMsg]_vars

\* ------------------------------------------- messages, the broadcast failing
\* POST: the broadcast is not delivered. Either send() resolves to 'error' or
\* 'timed out', which the handler does not look at, or the import, the
\* client construction or send() throws and the catch block answers 500. The
\* messages row was committed by prisma.message.create and stays.
MsgSendFails(m) ==
    /\ msg[m].pc = "send"
    /\ \E thrown \in BOOLEAN :
          MsgFinish(m, IF thrown THEN ErrorMsgResponse(500, "Internal server error")
                                 ELSE MessageResponse(msg[m].message))
    /\ UNCHANGED <<users, likes, matches, pc, caller, toUserId, like, mutualLike, response>>
    /\ UNCHANGED <<profile, result, messages, broadcasts, feed>>
    /\ UNCHANGED acct

NextMsgFault ==
    \/ NextMsg
    \/ \E m \in MsgReq : MsgSendFails(m)

SpecMsgFault == InitMsg /\ [][NextMsgFault]_vars

\* ------------------------------------------------------ GET /recommendations
\* take: 20
Take == 20

\* Profiles of the users the feed is computed over: a founder who offers
\* backend development and looks for marketing, and one the other way round
\* with bio and headline filled in.
Engineer ==
    [offers |-> <<"Backend Development">>, lookingFor |-> <<"Marketing">>,
     skills |-> <<"React", "Node.js">>, location |-> "SF", availability |-> 80,
     bio |-> FALSE, headline |-> FALSE]
Marketer ==
    [offers |-> <<"Marketing">>, lookingFor |-> <<"Backend Development">>,
     skills |-> <<"React">>, location |-> "SF", availability |-> 85,
     bio |-> TRUE, headline |-> TRUE]
\* Users of odd id are engineers, users of even id marketers: a viewer finds
\* candidates of different score and, from three users on, of equal score.
FeedProfile(u) == IF u % 2 = 1 THEN Engineer ELSE Marketer

\* Who asks for the feed: nobody signed in, an account without a users row,
\* an engineer or a marketer (users of one profile are interchangeable).
FeedCallers == {NoUser, UnknownId, 1, 2}

ErrorFeedResponse(n, e) == [status |-> n, error |-> e, list |-> <<>>]
FeedResponse(rows) == [status |-> 200, error |-> "", list |-> rows]

\* currentUser.likesSent.map(like => like.toId)
LikedUserIds(u) == {l.toId : l \in {x \in likes : x.fromId = u}}

\* where: { id: { not: user.id } } alone.
Candidates_KeepsLiked(u, liked) == users \ {u}

\* where: { id: { not: user.id, notIn: likedUserIds } }
Candidates(u, liked) == users \ ({u} \cup liked)

\* The results prisma.user.findMany({ where, take: 20 }) can give: with no
\* orderBy, any Take of the rows (all of them when fewer) in any order.
FindCandidates(u, liked) ==
    LET rows == Candidates(u, liked)
    IN {q \in [1 .. Min2(Take, Cardinality(rows)) -> rows] :
           \A i, j \in DOMAIN q : i # j => q[i] # q[j]}

\* recommendations.map(...): matchScore and matchReasons from
\* calculateMatchScore(currentUser, recommendation).
ScoredRecommendation(u, id) ==
    LET score == calculateMatchScore(profile[u], profile[id])
    IN [id |-> id, matchScore |-> score.score, matchReasons |-> score.reasons]

\* The list as found, never sorted.
SortByScore_Unsorted(rows) == rows

\* Array.prototype.sort((a, b) => b.matchScore - a.matchScore): stable, so
\* entries of equal score keep the order they were found in.
RECURSIVE SortByScore(_)
SortByScore(rows) ==
    IF rows = <<>> THEN <<>>
    ELSE LET n == Len(rows)
             e == rows[n]
             q == SortByScore(SubSeq(rows, 1, n - 1))
             k == Cardinality({i \in DOMAIN q : q[i].matchScore >= e.matchScore})
         IN SubSeq(q, 1, k) \o <<e>> \o SubSeq(q, k + 1, Len(q))

\* A handler that also clears the caller's likes.
FeedReads_ClearsLikes ==
    /\ likes' = {l \in likes : l.fromId # feed'.caller}
    /\ UNCHANGED <<users, matches, messages>>

\* The handler calls findUnique and findMany only: no row is written.
FeedReads == UNCHANGED <<users, likes, matches, messages>>

\* Session lookup and prisma.user.findUnique with likesSent.
FeedLoad ==
    /\ feed.pc = "idle"
    /\ \E c \in FeedCallers :
        IF c = NoUser
          THEN feed' = [feed EXCEPT !.pc = "done",
                                    !.response = ErrorFeedResponse(401, "Unauthorized")]
        ELSE IF c \notin users
          THEN feed' = [feed EXCEPT !.pc = "done", !.caller = c,
                                    !.response = ErrorFeedResponse(404, "Profile not found")]
        ELSE feed' = [feed EXCEPT !.pc = "loaded", !.caller = c,
                                  !.likedUserIds = LikedUserIds(c)]
    /\ FeedReads
    /\ UNCHANGED <<pc, caller, toUserId, like, mutualLike, response>>
    /\ UNCHANGED <<profile, result, broadcasts, msg>>
    /\ UNCHANGED acct

\* prisma.user.findMany, the scores, the sort and the response.
FeedFindMany ==
    /\ feed.pc = "loaded"
    /\ LET entry == [id \in Candidates(feed.caller, feed.likedUserIds) |->
                         ScoredRecommendation(feed.caller, id)]
       IN \E found \in FindCandidates(feed.caller, feed.likedUserIds) :
        LET scored == [i \in DOMAIN found |-> entry[found[i]]]
        IN feed' = [feed EXCEPT !.pc = "done",
                                !.response = FeedResponse(SortByScore(scored))]
    /\ FeedReads
    /\ UNCHANGED <<pc, caller, toUserId, like, mutualLike, response>>
    /\ UNCHANGED <<profile, result, broadcasts, msg>>
    /\ UNCHANGED acct

InitFeed ==
    /\ users = ProfileIds
    /\ likes = {}
    /\ matches = {}
    /\ pc = [r \in Req |-> "idle"]
    /\ caller = [r \in Req |-> NoUser]
    /\ toUserId = [r \in Req |-> Malformed]
    /\ like = [r \in Req |-> 0]
    /\ mutualLike = [r \in Req |-> FALSE]
    /\ response = [r \in Req |-> NoResponse]
    /\ profile = [u \in ProfileIds |-> FeedProfile(u)]
    /\ result = NoResult
    /\ messages = {}
    /\ broadcasts = {}
    /\ msg = [m \in MsgReq |-> IdleMsg]
    /\ feed = IdleFeed
    /\ owned = {}
    /\ erase = IdleErase
    /\ shown = IdleShown
    /\ skills = {}
    /\ skillOnUser = {}
    /\ upd = [p \in UpdReq |-> IdleUpd]
    /\ inv = IdleInv

\* One feed request next to POST /like calls that run one after another.
NextFeed ==
    \/ FeedLoad
    \/ FeedFindMany
    \/ NextSeq

SpecFeed == InitFeed /\ [][NextFeed]_vars

\* ------------------------------------- GET /recommendations, asked twice
\* The viewer who was served asks again: session lookup and
\* prisma.user.findUnique with likesSent of the second call.
FeedAgain ==
    /\ feed.pc = "done"
    /\ feed.response.status = 200
    /\ feed.before = NoFeedResponse
    /\ IF feed.caller \notin users
         THEN feed' = [feed EXCEPT !.before = feed.response,
                                   !.response = ErrorFeedResponse(404, "Profile not found")]
         ELSE feed' = [feed EXCEPT !.pc = "loaded",
                                   !.likedUserIds = LikedUserIds(feed.caller),
                                   !.before = feed.response,
                                   !.response = NoFeedResponse]
    /\ FeedReads
    /\ UNCHANGED <<pc, caller, toUserId, like, mutualLike, response>>
    /\ UNCHANGED <<profile, result, broadcasts, msg>>
    /\ UNCHANGED acct

\* POST /like calls fill the store; once they are all answered a viewer asks
\* for the feed twice, so both calls read one store state.
NextFeedTwice ==
    \/ feed.pc = "idle" /\ NextSeq
    \/ Quiet /\ FeedLoad
    \/ FeedFindMany
    \/ FeedAgain

SpecFeedTwice == InitFeed /\ [][NextFeedTwice]_vars

\* -------------------------------------------------- DELETE /delete-account
\* The tables the handler clears by reporterId, ownerId or userId, in the
\* order of its statements 4 to 8.
OwnedTables == <<"reports", "startups", "skill_on_user", "offers", "looking_for">>
OwnedRows(u) == {[table |-> OwnedTables[i], userId |-> u] : i \in DOMAIN OwnedTables}

\* Who asks for the erasure: nobody signed in, an account without a users
\* row, user 1 (who likes and is liked) or user 3.
EraseCallers == {NoUser, UnknownId, 1, 3}

ErrorEraseResponse(n, e) == [status |-> n, error |-> e, deleted |-> FALSE]
ErasedResponse == [status |-> 200, error |-> "", deleted |-> TRUE]

\* Rows of matches with u as userAId or userBId.
MatchesWith(u) == {x \in matches : x.userAId = u \/ x.userBId = u}
\* The likes the user sent only.
LikesWith_SentOnly(u) == {l \in likes : l.fromId = u}
\* Every likes row.
LikesWith_Everyone(u) == likes

\* Rows of likes with u as fromId or toId.
LikesWith(u) == {l \in likes : l.fromId = u \/ l.toId = u}
\* messages_matchId_fkey ON DELETE CASCADE: the rows that go with the matches
\* rows gone.
MessagesIn(gone) == {x \in messages : \E y \in gone : y.id = x.matchId}

EraseFinish(resp) == erase' = [erase EXCEPT !.pc = "done", !.response = resp]

\* Session lookup: no storage access.
EraseStart ==
    /\ erase.pc = "idle"
    /\ \E c \in EraseCallers :
        IF c = NoUser
          THEN EraseFinish(ErrorEraseResponse(401, "Unauthorized"))
          ELSE erase' = [erase EXCEPT !.pc = "messages", !.caller = c]
    /\ UNCHANGED <<users, likes, matches, pc, caller, toUserId, like, mutualLike, response>>
    /\ UNCHANGED <<profile, result, messages, broadcasts, msg, feed, owned, shown>>
    /\ UNCHANGED prof

\* 1. prisma.message.deleteMany({ where: { senderId } })
EraseMessages ==
    /\ erase.pc = "messages"
    /\ messages' = {x \in messages : x.senderId # erase.caller}
    /\ erase' = [erase EXCEPT !.pc = "matches"]
    /\ UNCHANGED <<users, likes, matches, pc, caller, toUserId, like, mutualLike, response>>
    /\ UNCHANGED <<profile, result, broadcasts, msg, feed, owned, shown>>
    /\ UNCHANGED prof

\* 2. prisma.match.deleteMany({ where: { OR: [userAId, userBId] } }); the
\* messages of the rows go with them.
EraseMatches ==
    /\ erase.pc = "matches"
    /\ matches' = matches \ MatchesWith(erase.caller)
    /\ messages' = messages \ MessagesIn(MatchesWith(erase.caller))
    /\ erase' = [erase EXCEPT !.pc = "likes"]
    /\ UNCHANGED <<users, likes, pc, caller, toUserId, like, mutualLike, response>>
    /\ UNCHANGED <<profile, result, broadcasts, msg, feed, owned, shown>>
    /\ UNCHANGED prof

\* 3. prisma.like.deleteMany({ where: { OR: [fromId, toId] } })
EraseLikes ==
    /\ erase.pc = "likes"
    /\ likes' = likes \ LikesWith(erase.caller)
    /\ erase' = [erase EXCEPT !.pc = "owned"]
    /\ UNCHANGED <<users, matches, pc, caller, toUserId, like, mutualLike, response>>
    /\ UNCHANGED <<profile, result, messages, broadcasts, msg, feed, owned, shown>>
    /\ UNCHANGED prof

\* 4 to 8. deleteMany on reports, startups, skill_on_user, offers and
\* looking_for. No handler that runs next to the erasure reads or writes
\* these tables, so the five statements are taken in one step.
EraseOwned ==
    /\ erase.pc = "owned"
    /\ owned' = owned \ OwnedRows(erase.caller)
    /\ erase' = [erase EXCEPT !.pc = "user"]
    /\ UNCHANGED <<users, likes, matches, pc, caller, toUserId, like, mutualLike, response>>
    /\ UNCHANGED <<profile, result, messages, broadcasts, msg, feed, shown>>
    /\ UNCHANGED prof

\* 9 and 10. prisma.user.delete, which throws when the row is missing, with
\* every ON DELETE CASCADE of the row; then auth.admin.deleteUser, whose error
\* is logged only, and the response.
EraseUser ==
    /\ erase.pc = "user"
    /\ IF erase.caller \notin users
         THEN /\ EraseFinish(ErrorEraseResponse(500, "Failed to delete account"))
              /\ UNCHANGED <<users, likes, matches, messages, owned>>
         ELSE /\ users' = users \ {erase.caller}
              /\ likes' = likes \ LikesWith(erase.caller)
              /\ matches' = matches \ MatchesWith(erase.caller)
              /\ messages' = {x \in messages \ MessagesIn(MatchesWith(erase.caller)) :
                                 x.senderId # erase.caller}
              /\ owned' = owned \ OwnedRows(erase.caller)
              /\ EraseFinish(ErasedResponse)
    /\ UNCHANGED <<pc, caller, toUserId, like, mutualLike, response>>
    /\ UNCHANGED <<profile, result, broadcasts, msg, feed, shown>>
    /\ UNCHANGED prof

\* A reply of user 2 in match 2, next to the seeded message of user 1.
SeedReply == [id |-> MaxMsgReq + 1, matchId |-> 2, senderId |-> 2, createdAt |-> 2]

\* The store before the erasure: every user with a row in each owned table,
\* and either nothing else, or users 1 and 2 matched (row 2) with a message
\* each.
InitErase ==
    /\ users = ProfileIds
    /\ owned = UNION {OwnedRows(u) : u \in ProfileIds}
    /\ \/ /\ likes = {}
          /\ matches = {}
          /\ messages = {}
          /\ pc = [r \in Req |-> "idle"]
          /\ caller = [r \in Req |-> NoUser]
          /\ toUserId = [r \in Req |-> Malformed]
          /\ like = [r \in Req |-> 0]
          /\ mutualLike = [r \in Req |-> FALSE]
          /\ response = [r \in Req |-> NoResponse]
       \/ /\ likes = {[id |-> 1, fromId |-> 1, toId |-> 2], [id |-> 2, fromId |-> 2, toId |-> 1]}
          /\ matches = {NewMatch(2, 2, 1)}
          /\ messages = {SeedMessage, SeedReply}
          /\ LikeLocalsAfter(FALSE)
    /\ profile = [u \in ProfileIds |-> NoProfile]
    /\ result = NoResult
    /\ broadcasts = {}
    /\ msg = [m \in MsgReq |-> IdleMsg]
    /\ feed = IdleFeed
    /\ erase = IdleErase
    /\ shown = IdleShown
    /\ skills = {}
    /\ skillOnUser = {}
    /\ upd = [p \in UpdReq |-> IdleUpd]
    /\ inv = IdleInv

\* One erasure next to POST /like calls that run one after another.
NextErase ==
    \/ EraseStart
    \/ EraseMessages
    \/ EraseMatches
    \/ EraseLikes
    \/ EraseOwned
    \/ EraseUser
    \/ NextSeq

SpecErase == InitErase /\ [][NextErase]_vars

\* ------------------------- messages next to POST /like and to an erasure
\* One messages request next to an erasure and to POST /like calls that run
\* one after another.
NextChatErase ==
    \/ NextErase
    \/ MsgStart(1) \/ MsgFindMatch(1) \/ MsgFindMany(1) \/ MsgCreate(1) \/ MsgSend(1)

SpecChatErase == InitErase /\ [][NextChatErase]_vars

\* ------------------------------------------- messages next to POST /like
\* One messages request next to POST /like calls that run one after another,
\* from the empty store.
NextChat ==
    \/ NextSeq
    \/ MsgStart(1)
    \/ MsgFindMatch(1)
    \/ MsgFindMany(1)
    \/ MsgCreate(1)
    \/ MsgSend(1)

SpecChat == Init /\ [][NextChat]_vars

\* ------------------------------------------------------------ GET /matches
\* Who asks for their matches: nobody signed in, or a user with a profile.
ShownCallers == ProfileIds \cup {NoUser}

ErrorShownResponse(n, e) == [status |-> n, error |-> e, list |-> <<>>]
ShownResponse(rows) == [status |-> 200, error |-> "", list |-> rows]

\* The where clause without active: true.
ShownRows_IgnoresActive(u) == {x \in matches : x.userAId = u \/ x.userBId = u}

\* The where clause without the userBId branch.
ShownRows_AsUserAOnly(u) == {x \in matches : x.userAId = u /\ x.active}

\* where: { OR: [{ userAId }, { userBId }], active: true }
ShownRows(u) == {x \in matches : (x.userAId = u \/ x.userBId = u) /\ x.active}

\* The results prisma.match.findMany can give. The rows are ordered by
\* createdAt, which the rows of the model do not carry: any order.
FindMatches(u) ==
    {q \in [1 .. Cardinality(ShownRows(u)) -> ShownRows(u)] :
        \A i, j \in DOMAIN q : i # j => q[i] # q[j]}

\* match.userAId === user.id ? match.userB : match.userA
OtherUser(x, u) == IF x.userAId = u THEN x.userBId ELSE x.userAId

\* originalLike?.message || null: the likes table has no message column, so
\* the row found (or not) gives null.
OriginalMessage(f, t) == "null"

\* { id, user: otherUser, originalMessage, matchedAt }
ShownEntry(x, u) ==
    [id |-> x.id, user |-> OtherUser(x, u),
     originalMessage |-> OriginalMessage(OtherUser(x, u), u)]

\* Session lookup and prisma.match.findMany with userA and userB included.
ShownFind ==
    /\ shown.pc = "idle"
    /\ \E c \in ShownCallers :
        IF c = NoUser
          THEN shown' = [shown EXCEPT !.pc = "done",
                                      !.response = ErrorShownResponse(401, "Unauthorized")]
          ELSE \E rows \in FindMatches(c) :
                  shown' = [shown EXCEPT !.pc = "likes", !.caller = c, !.found = rows]
    /\ UNCHANGED <<users, likes, matches, pc, caller, toUserId, like, mutualLike, response>>
    /\ UNCHANGED <<profile, result, messages, broadcasts, msg, feed, owned, erase>>
    /\ UNCHANGED prof

\* Promise.all of prisma.like.findUnique per match, and the response.
ShownLikes ==
    /\ shown.pc = "likes"
    /\ shown' = [shown EXCEPT !.pc = "done",
                   !.response = ShownResponse([i \in DOMAIN shown.found |->
                                                  ShownEntry(shown.found[i], shown.caller)])]
    /\ UNCHANGED <<users, likes, matches, pc, caller, toUserId, like, mutualLike, response>>
    /\ UNCHANGED <<profile, result, messages, broadcasts, msg, feed, owned, erase>>
    /\ UNCHANGED prof

\* The store the request starts from: empty, or users 1 and 2 matched as the
\* like route leaves them, each row active or not.
InitShown ==
    /\ users = ProfileIds
    /\ \/ /\ likes = {}
          /\ matches = {}
          /\ pc = [r \in Req |-> "idle"]
          /\ caller = [r \in Req |-> NoUser]
          /\ toUserId = [r \in Req |-> Malformed]
          /\ like = [r \in Req |-> 0]
          /\ mutualLike = [r \in Req |-> FALSE]
          /\ response = [r \in Req |-> NoResponse]
       \/ /\ likes = {[id |-> 1, fromId |-> 1, toId |-> 2], [id |-> 2, fromId |-> 2, toId |-> 1]}
          /\ \E raced \in BOOLEAN, a1 \in BOOLEAN, a2 \in BOOLEAN :
                /\ ~raced => a1
                /\ matches = {[NewMatch(2, 2, 1) EXCEPT !.active = a2]}
                             \cup (IF raced THEN {[NewMatch(1, 1, 2) EXCEPT !.active = a1]} ELSE {})
                /\ LikeLocalsAfter(raced)
    /\ profile = [u \in ProfileIds |-> NoProfile]
    /\ result = NoResult
    /\ messages = {}
    /\ broadcasts = {}
    /\ msg = [m \in MsgReq |-> IdleMsg]
    /\ feed = IdleFeed
    /\ owned = {}
    /\ erase = IdleErase
    /\ shown = IdleShown
    /\ skills = {}
    /\ skillOnUser = {}
    /\ upd = [p \in UpdReq |-> IdleUpd]
    /\ inv = IdleInv

\* One GET /matches request next to POST /like calls that run one after
\* another.
NextShown ==
    \/ ShownFind
    \/ ShownLikes
    \/ NextSeq

SpecShown == InitShown /\ [][NextShown]_vars

\* -------------------------------------------------------- GET /invitations
\* Who asks for the invitations: a user with a profile, or nobody signed in.
InvCallers == ProfileIds \cup {NoUser}

\* An empty list in place of the error.
ErrorInvResponse_EmptyList(n, e) == [status |-> 200, error |-> "", list |-> <<>>]

ErrorInvResponse(n, e) == [status |-> n, error |-> e, list |-> <<>>]
InvResponse(rows) == [status |-> 200, error |-> "", list |-> rows]

\* where: { toId: user.id }
ReceivedLikes(u) == {l \in likes : l.toId = u}

\* The results prisma.like.findMany can give. The rows are ordered by
\* createdAt, which the rows of the model do not carry: any order.
FindReceivedLikes(u) ==
    {q \in [1 .. Cardinality(ReceivedLikes(u)) -> ReceivedLikes(u)] :
        \A i, j \in DOMAIN q : i # j => q[i] # q[j]}

\* The other participants of the active matches only.
MatchedUserIds_ActiveOnly(u) == {OtherUser(x, u) : x \in ShownRows(u)}

\* prisma.match.findMany({ where: { OR: [{ userAId }, { userBId }] } }) and
\* matchedUserIds: the other participant of every match of the caller.
MatchedUserIds(u) == {OtherUser(x, u) : x \in MatchesWith(u)}

\* receivedLikes.filter(like => !matchedUserIds.has(like.fromId))
Invitations(received, matched) ==
    LET NotMatched(l) == l.fromId \notin matched
    IN SelectSeq(received, NotMatched)

\* Session lookup and prisma.like.findMany.
InvFind ==
    /\ inv.pc = "idle"
    /\ \E c \in InvCallers :
        IF c = NoUser
          THEN inv' = [inv EXCEPT !.pc = "done",
                                  !.response = ErrorInvResponse(401, "Unauthorized")]
          ELSE \E rows \in FindReceivedLikes(c) :
                  inv' = [inv EXCEPT !.pc = "matches", !.caller = c, !.receivedLikes = rows]
    /\ UNCHANGED <<users, likes, matches, pc, caller, toUserId, like, mutualLike, response>>
    /\ UNCHANGED <<profile, result, messages, broadcasts, msg, feed, owned, erase, shown>>
    /\ UNCHANGED <<skills, skillOnUser, upd>>

\* prisma.match.findMany, the filter and the response.
InvMatches ==
    /\ inv.pc = "matches"
    /\ inv' = [inv EXCEPT !.pc = "done",
                 !.response = InvResponse(Invitations(inv.receivedLikes,
                                                      MatchedUserIds(inv.caller)))]
    /\ UNCHANGED <<users, likes, matches, pc, caller, toUserId, like, mutualLike, response>>
    /\ UNCHANGED <<profile, result, messages, broadcasts, msg, feed, owned, erase, shown>>
    /\ UNCHANGED <<skills, skillOnUser, upd>>

\* One GET /invitations request next to POST /like calls that run one after
\* another.
NextInv ==
    \/ InvFind
    \/ InvMatches
    \/ NextSeq

SpecInv == InitShown /\ [][NextInv]_vars

\* ------------------------------------------------- every route, one by one
\* No request of the messages, recommendations, matches, invitations or
\* delete-account route has arrived.
OthersIdle ==
    /\ \A m \in MsgReq : msg[m].pc = "idle"
    /\ feed.pc = "idle"
    /\ shown.pc = "idle"
    /\ inv.pc = "idle"
    /\ erase.pc = "idle"

\* POST /like calls fill the store one after another; then one request of
\* one of the other routes arrives and runs to its response.
NextRoutes ==
    \/ OthersIdle /\ NextSeq
    \/ Quiet /\ OthersIdle /\ MsgStart(1)
    \/ Quiet /\ OthersIdle /\ FeedLoad
    \/ Quiet /\ OthersIdle /\ ShownFind
    \/ Quiet /\ OthersIdle /\ InvFind
    \/ Quiet /\ OthersIdle /\ EraseStart
    \/ MsgFindMatch(1) \/ MsgFindMany(1) \/ MsgCreate(1) \/ MsgSend(1)
    \/ FeedFindMany
    \/ ShownLikes
    \/ InvMatches
    \/ EraseMessages \/ EraseMatches \/ EraseLikes \/ EraseOwned \/ EraseUser

SpecRoutes == Init /\ [][NextRoutes]_vars

\* ----------------------------------------------------- POST /profile, skills
\* Who updates a profile: a user with a users row, or nobody signed in.
UpdCallers == {NoUser, 1, 2}

\* body.skills as skills.split(',') cuts it: <<>> stands for a body without
\* skills and <<"">> for the empty string.
SkillsInputs ==
    {<<>>, <<"">>, <<"React">>, <<" React", "">>, <<"React", "Go">>, <<"React", "React">>}

\* if (skills): undefined and '' are falsy.
HasSkills(sk) == sk # <<>> /\ sk # <<"">>

\* String.prototype.trim
Trim(x) == IF x = " React" THEN "React" ELSE x

\* skills.split(',').map(s => s.trim()).filter(s => s.length > 0)
SkillNames(sk) ==
    LET NonEmpty(x) == x # ""
    IN SelectSeq([i \in DOMAIN sk |-> Trim(sk[i])], NonEmpty)

ErrorUpdResponse(n, e) == [status |-> n, error |-> e, skills |-> {}]
\* completeProfile, of which the skill names are kept.
ProfileResponse(names) == [status |-> 200, error |-> "", skills |-> names]

SkillRows(name) == {x \in skills : x.name = name}

\* INSERT INTO skills: rejected by skills_name_key.
SkillInsertOk(name) == SkillRows(name) = {}

\* INSERT INTO skill_on_user: rejected by skill_on_user_userId_skillId_key.
SkillOnUserInsertOk(u, id) ==
    ~\E x \in skillOnUser : x.userId = u /\ x.skillId = id

\* The skills row a profile update creates for a name.
NewSkill(p, name) == [id |-> <<p, name>>, name |-> name]

\* The names of the skills a user is associated with.
SkillsOf(u) ==
    {x.name : x \in {y \in skills : \E z \in skillOnUser : z.userId = u /\ z.skillId = y.id}}

UpdArrives(p) ==
    /\ upd[p].pc = "idle"
    /\ \A q \in UpdReq : q < p => upd[q].pc # "idle"

UpdFinish(p, resp) ==
    upd' = [upd EXCEPT ![p].pc = "done", ![p].response = resp]

\* After a statement of the loop: the next name, or the final read.
UpdNext(names) == IF names = <<>> THEN "findUnique" ELSE "upsert"

\* Session lookup and prisma.user.upsert, for a body that carries skills only.
UpdStart(p) ==
    /\ UpdArrives(p)
    /\ \E c \in UpdCallers, sk \in SkillsInputs :
        IF c = NoUser
          THEN /\ UpdFinish(p, ErrorUpdResponse(401, "Unauthorized"))
               /\ UNCHANGED users
          ELSE /\ users' = users \cup {c}
               /\ upd' = [upd EXCEPT ![p].pc = IF HasSkills(sk) THEN "deleteMany" ELSE "findUnique",
                                      ![p].caller = c, ![p].skills = sk]
    /\ UNCHANGED <<likes, matches, pc, caller, toUserId, like, mutualLike, response>>
    /\ UNCHANGED <<profile, result, messages, broadcasts, msg, feed, owned, erase, shown>>
    /\ UNCHANGED <<skills, skillOnUser, inv>>

\* prisma.skillOnUser.deleteMany and the parsing of body.skills.
UpdDeleteMany(p) ==
    /\ upd[p].pc = "deleteMany"
    /\ skillOnUser' = {x \in skillOnUser : x.userId # upd[p].caller}
    /\ profile' = [profile EXCEPT ![upd[p].caller].skills = <<>>]
    /\ upd' = [upd EXCEPT ![p].skillNames = SkillNames(upd[p].skills),
                           ![p].pc = UpdNext(SkillNames(upd[p].skills))]
    /\ UNCHANGED <<users, likes, matches, pc, caller, toUserId, like, mutualLike, response>>
    /\ UNCHANGED <<result, messages, broadcasts, msg, feed, owned, erase, shown>>
    /\ UNCHANGED <<skills, inv>>

\* prisma.skill.upsert({ where: { name }, update: {}, create: { name } }): as
\* one INSERT ... ON CONFLICT statement, or its lookup when the client runs
\* the upsert as a lookup followed by an insert or an update.
UpdSkillUpsert(p) ==
    /\ upd[p].pc = "upsert"
    /\ LET name == Head(upd[p].skillNames)
       IN IF upd[p].native
            THEN /\ skills' = IF SkillInsertOk(name) THEN skills \cup {NewSkill(p, name)}
                                                     ELSE skills
                 /\ upd' = [upd EXCEPT ![p].pc = "create"]
            ELSE /\ upd' = [upd EXCEPT ![p].pc = "upsertWrite",
                                        ![p].found = SkillRows(name) # {}]
                 /\ UNCHANGED skills
    /\ UNCHANGED <<users, likes, matches, pc, caller, toUserId, like, mutualLike, response>>
    /\ UNCHANGED <<profile, result, messages, broadcasts, msg, feed, owned, erase, shown>>
    /\ UNCHANGED <<skillOnUser, inv>>

\* The second statement of an upsert that is not one statement: the empty
\* update of the row found, or the insert, which skills_name_key rejects
\* when the row has appeared since the lookup; the error is answered 500.
UpdSkillWrite(p) ==
    /\ upd[p].pc = "upsertWrite"
    /\ LET name == Head(upd[p].skillNames)
       IN IF upd[p].found
            THEN /\ upd' = [upd EXCEPT ![p].pc = "create"]
                 /\ UNCHANGED skills
          ELSE IF SkillInsertOk(name)
            THEN /\ skills' = skills \cup {NewSkill(p, name)}
                 /\ upd' = [upd EXCEPT ![p].pc = "create"]
          ELSE /\ UpdFinish(p, ErrorUpdResponse(500, "Internal server error"))
               /\ UNCHANGED skills
    /\ UNCHANGED <<users, likes, matches, pc, caller, toUserId, like, mutualLike, response>>
    /\ UNCHANGED <<profile, result, messages, broadcasts, msg, feed, owned, erase, shown>>
    /\ UNCHANGED <<skillOnUser, inv>>

\* prisma.skillOnUser.create({ data: { userId, skillId: skill.id } })
UpdCreate(p) ==
    /\ upd[p].pc = "create"
    /\ LET name == Head(upd[p].skillNames)
           skill == CHOOSE x \in SkillRows(name) : TRUE
           rest == Tail(upd[p].skillNames)
       IN IF SkillOnUserInsertOk(upd[p].caller, skill.id)
            THEN /\ skillOnUser' = skillOnUser \cup
                        {[id |-> <<p, Len(rest)>>, userId |-> upd[p].caller, skillId |-> skill.id]}
                 /\ profile' = [profile EXCEPT ![upd[p].caller].skills = Append(@, name)]
                 /\ upd' = [upd EXCEPT ![p].skillNames = rest, ![p].pc = UpdNext(rest)]
            ELSE /\ UpdFinish(p, ErrorUpdResponse(500, "Internal server error"))
                 /\ UNCHANGED <<skillOnUser, profile>>
    /\ UNCHANGED <<users, likes, matches, pc, caller, toUserId, like, mutualLike, response>>
    /\ UNCHANGED <<result, messages, broadcasts, msg, feed, owned, erase, shown>>
    /\ UNCHANGED <<skills, inv>>

\* prisma.user.findUnique with the relations, and the response.
UpdFindUnique(p) ==
    /\ upd[p].pc = "findUnique"
    /\ UpdFinish(p, ProfileResponse(SkillsOf(upd[p].caller)))
    /\ UNCHANGED <<users, likes, matches, pc, caller, toUserId, like, mutualLike, response>>
    /\ UNCHANGED <<profile, result, messages, broadcasts, msg, feed, owned, erase, shown>>
    /\ UNCHANGED <<skills, skillOnUser, inv>>

\* The client either runs every upsert as one statement or none.
InitSkill ==
    /\ users = ProfileIds
    /\ likes = {}
    /\ matches = {}
    /\ pc = [r \in Req |-> "idle"]
    /\ caller = [r \in Req |-> NoUser]
    /\ toUserId = [r \in Req |-> Malformed]
    /\ like = [r \in Req |-> 0]
    /\ mutualLike = [r \in Req |-> FALSE]
    /\ response = [r \in Req |-> NoResponse]
    /\ profile = [u \in ProfileIds |-> NoProfile]
    /\ result = NoResult
    /\ messages = {}
    /\ broadcasts = {}
    /\ msg = [m \in MsgReq |-> IdleMsg]
    /\ feed = IdleFeed
    /\ owned = {}
    /\ erase = IdleErase
    /\ shown = IdleShown
    /\ skills = {}
    /\ skillOnUser = {}
    /\ \E native \in BOOLEAN : upd = [p \in UpdReq |-> [IdleUpd EXCEPT !.native = native]]
    /\ inv = IdleInv

NextSkill ==
    \E p \in UpdReq :
        \/ UpdStart(p)
        \/ UpdDeleteMany(p)
        \/ UpdSkillUpsert(p)
        \/ UpdSkillWrite(p)
        \/ UpdCreate(p)
        \/ UpdFindUnique(p)

SpecSkill == InitSkill /\ [][NextSkill]_vars

\* ------------------------------------------------------------------ claims
Done(r) == pc[r] = "done"
\* Request r is expressInterest(a, b) by an authenticated caller.
Calls(r, a, b) == caller[r] = a /\ toUserId[r] = b
\* The rows request r wrote.
LikesOf(r) == {l \in likes : l.id = r}
MatchesOf(r) == {m \in matches : m.id = r}
\* Like rows between a and b, in either direction.
PairLikes(a, b) == LikeRows(likes, a, b) \cup LikeRows(likes, b, a)

\* C1: for distinct users a and b, at most one Match row exists for the
\* unordered pair {a, b}, rows stored as (a, b) and as (b, a) counted together.
C1_OneMatchPerPair ==
    \A a \in ProfileIds, b \in ProfileIds :
        a # b => Cardinality(PairMatches(matches, a, b)) <= 1

\* C2: from a state with no Interest and no Match between a and b,
\* expressInterest(a, b) run to completion and then expressInterest(b, a) run
\* to completion leave exactly one Match row for {a, b}, which is active; the
\* first call answers isMatch = false and the second isMatch = true.
C2_Sequence(r1, r2, a, b) ==
    /\ r1 < r2
    /\ a # b
    /\ Calls(r1, a, b) /\ Calls(r2, b, a)
    /\ Done(r1) /\ Done(r2)
    /\ response[r1].status = 200
    /\ \A l \in PairLikes(a, b) : l.id \in {r1, r2}

C2_MutualInterestClosure ==
    \A r1 \in Req, r2 \in Req, a \in ProfileIds, b \in ProfileIds :
        C2_Sequence(r1, r2, a, b) =>
            /\ response[r1].isMatch = FALSE
            /\ response[r2].status = 200
            /\ response[r2].isMatch = TRUE
            /\ Cardinality(PairMatches(matches, a, b)) = 1
            /\ \A m \in PairMatches(matches, a, b) : m.active /\ m.id = response[r2].match

C2_Witness ==
    \E r1 \in Req, r2 \in Req, a \in ProfileIds, b \in ProfileIds :
        C2_Sequence(r1, r2, a, b) /\ response[r2].isMatch

\* C3: when expressInterest(a, b) and expressInterest(b, a) both return
\* successfully, in any interleaving, at least one of them found the reverse
\* Interest, and a Match for {a, b} exists.
C3_Both(r1, r2) ==
    /\ r1 # r2
    /\ Done(r1) /\ Done(r2)
    /\ caller[r1] = toUserId[r2] /\ caller[r2] = toUserId[r1]
    /\ response[r1].status = 200 /\ response[r2].status = 200

C3_NotBothMissing ==
    \A r1 \in Req, r2 \in Req :
        C3_Both(r1, r2) =>
            /\ mutualLike[r1] \/ mutualLike[r2]
            /\ response[r1].isMatch \/ response[r2].isMatch
            /\ PairMatches(matches, caller[r1], toUserId[r1]) # {}

\* Both calls in flight at once: each inserted its Interest before the other
\* looked up the reverse one.
C3_Witness ==
    \E r1 \in Req, r2 \in Req :
        /\ C3_Both(r1, r2)
        /\ mutualLike[r1] /\ mutualLike[r2]

\* C4: a call that found the reverse Interest while a Match for the unordered
\* pair already exists, in either storage order, creates no new Match row and,
\* when it succeeds, answers with the existing Match.
C4_AlreadyMatchedIsNoOp ==
    [][\A r \in Req :
          ( /\ pc[r] = "matchCreate"
            /\ pc'[r] = "done"
            /\ PairMatches(matches, caller[r], toUserId[r]) # {} )
          => /\ matches' = matches
             /\ response'[r].status = 200 =>
                  \E m \in PairMatches(matches, caller[r], toUserId[r]) :
                      response'[r].match = m.id]_vars

\* C5: a call whose storage step failed leaves no Interest row of its own
\* behind, and no quiescent state holds both Interests of a pair without a Match.
C5_AtomicInterestAndMatch ==
    /\ \A r \in Req :
          (Done(r) /\ response[r].status = 500) => LikesOf(r) = {}
    /\ Quiet =>
          \A a \in ProfileIds, b \in ProfileIds :
              (a # b /\ LikeFound(likes, a, b) /\ LikeFound(likes, b, a))
                  => PairMatches(matches, a, b) # {}

\* C6: expressInterest(a, b) called twice in sequence leaves exactly one
\* Interest(a -> b) row; the second call is rejected as a duplicate and
\* writes no Interest and no Match row.
C6_Sequence(r1, r2, a, b) ==
    /\ r1 < r2
    /\ a # b
    /\ Calls(r1, a, b) /\ Calls(r2, a, b)
    /\ Done(r1) /\ Done(r2)
    /\ response[r1].status = 200

C6_IdempotentInterest ==
    \A r1 \in Req, r2 \in Req, a \in ProfileIds, b \in ProfileIds :
        C6_Sequence(r1, r2, a, b) =>
            /\ response[r2] = ErrorResponse(400, "Already liked this user")
            /\ Cardinality(LikeRows(likes, a, b)) = 1
            /\ LikesOf(r2) = {}
            /\ MatchesOf(r2) = {}

C6_Witness ==
    \E r1 \in Req, r2 \in Req, a \in ProfileIds, b \in ProfileIds :
        C6_Sequence(r1, r2, a, b) /\ response[r2].status = 400

\* C7: in every reachable state the likes table holds at most one row per
\* ordered (fromId, toId) pair.
C7_OneInterestPerOrderedPair ==
    \A f \in AuthIds, t \in AuthIds : Cardinality(LikeRows(likes, f, t)) <= 1

\* Two calls with the same fromId and toId whose existence checks both ran
\* before either insert; one has inserted, the other was rejected by the index.
C7_Witness ==
    \E r1 \in Req, r2 \in Req :
        /\ r1 # r2
        /\ Calls(r2, caller[r1], toUserId[r1])
        /\ LikesOf(r1) # {}
        /\ pc[r2] = "likeCreate"

\* C8: expressInterest(a, a) always fails and no Interest row with
\* fromId = toId is ever stored.
C8_NoSelfInterest ==
    /\ \A l \in likes : l.fromId # l.toId
    /\ \A r \in Req :
          (Done(r) /\ caller[r] # NoUser /\ caller[r] = toUserId[r]) =>
              /\ response[r] = ErrorResponse(400, "Cannot like yourself")
              /\ LikesOf(r) = {}
              /\ MatchesOf(r) = {}

C8_Witness ==
    \E r \in Req :
        /\ Done(r)
        /\ caller[r] \in ProfileIds
        /\ caller[r] = toUserId[r]
        /\ likes # {}

\* C9: expressInterest(fromId, toId) with a toId that names no user fails
\* with 404 and writes no Interest and no Match row.
C9_UnknownTarget(r) ==
    /\ Done(r)
    /\ caller[r] # NoUser
    /\ IsUuid(toUserId[r])
    /\ caller[r] # toUserId[r]
    /\ toUserId[r] \notin users

C9_UnknownUser ==
    /\ \A l \in likes : l.toId \in users
    /\ \A r \in Req :
          C9_UnknownTarget(r) =>
              /\ response[r] = ErrorResponse(404, "User not found")
              /\ LikesOf(r) = {}
              /\ MatchesOf(r) = {}

C9_Witness == \E r \in Req : C9_UnknownTarget(r) /\ caller[r] \in users

\* C10: POST /like answers a malformed toUserId with HTTP 400, as it does a
\* self-like, and persists nothing.
C10_MalformedIs400 ==
    \A r \in Req :
        (Done(r) /\ caller[r] # NoUser /\ ~IsUuid(toUserId[r])) =>
            /\ response[r].status = 400
            /\ LikesOf(r) = {}
            /\ MatchesOf(r) = {}

\* C22: every likes row has as fromId the signed-in caller of the request
\* that inserted it.
C22_InterestFromCaller ==
    \A l \in likes : caller[l.id] # NoUser /\ l.fromId = caller[l.id]

\* Two users each hold a row of their own, toward each other.
C22_Witness ==
    \E l \in likes, k \in likes :
        /\ l.fromId # k.fromId
        /\ l.toId = k.fromId /\ k.toId = l.fromId
        /\ caller[l.id] = l.fromId /\ caller[k.id] = k.fromId

\* ---------------------------------------------------------- claims: messages
MsgDone(m) == msg[m].pc = "done"
\* The request of slot m passed the session check and, for POST, the schema.
MsgAsked(m) == msg[m].pc # "idle" /\ msg[m].caller # NoUser
MsgWellFormed(m) == MsgAsked(m) /\ (msg[m].method = "POST" => ValidBody(msg[m].body))
MatchesWithId(id) == {x \in matches : x.id = id}
IsParticipant(u, id) == \E x \in MatchesWithId(id) : u = x.userAId \/ u = x.userBId
IsActiveParticipant(u, id) ==
    \E x \in MatchesWithId(id) : x.active /\ (u = x.userAId \/ u = x.userBId)
Stored(m) == {x \in messages : x.id = m}

\* C11: a well-formed request of a signed-in user passes the gate exactly when
\* a match with the given id exists, is active and has the caller as userA or
\* userB; when it does not pass, the GET or POST is answered 404 without a
\* list or a message, and nothing is stored for it.
C11_GateIffActiveParticipant ==
    \A m \in MsgReq :
        /\ msg[m].pc \in {"findMany", "create", "send"}
              => IsActiveParticipant(msg[m].caller, msg[m].matchId)
        /\ MsgDone(m) /\ MsgWellFormed(m) =>
              IF IsActiveParticipant(msg[m].caller, msg[m].matchId)
                THEN msg[m].response.status = 200
                ELSE /\ msg[m].response = ErrorMsgResponse(404, "Match not found")
                     /\ Stored(m) = {}

\* A participant of an inactive match was refused, and a participant of an
\* active match was served.
C11_Witness ==
    /\ \E m \in MsgReq :
          /\ MsgDone(m) /\ MsgWellFormed(m)
          /\ IsParticipant(msg[m].caller, msg[m].matchId)
          /\ ~IsActiveParticipant(msg[m].caller, msg[m].matchId)
          /\ msg[m].response.status = 404
    /\ \E m \in MsgReq : MsgDone(m) /\ msg[m].response.status = 200

\* A request of slot m by a user with a profile who takes no part in the
\* existing match the path names.
Outsider(m) ==
    /\ MsgAsked(m)
    /\ MatchesWithId(msg[m].matchId) # {}
    /\ ~IsParticipant(msg[m].caller, msg[m].matchId)

C13_ExistenceDoesNotLeak ==
    \A m \in MsgReq, q \in MsgReq :
        ( /\ MsgDone(m) /\ MsgDone(q)
          /\ Outsider(m)
          /\ MsgAsked(q) /\ MatchesWithId(msg[q].matchId) = {}
          /\ msg[q].caller = msg[m].caller
          /\ msg[q].method = msg[m].method
          /\ msg[q].body = msg[m].body )
        => msg[m].response = msg[q].response

\* The same user posted the same valid body to an active match of two others
\* and to an id that names no match.
C13_Witness ==
    \E m \in MsgReq, q \in MsgReq :
        /\ MsgDone(m) /\ MsgDone(q)
        /\ Outsider(m) /\ \E x \in MatchesWithId(msg[m].matchId) : x.active
        /\ MsgAsked(q) /\ MatchesWithId(msg[q].matchId) = {}
        /\ msg[q].caller = msg[m].caller
        /\ msg[m].method = "POST" /\ msg[q].method = "POST"
        /\ ValidBody(msg[m].body) /\ msg[q].body = msg[m].body

\* C14: every stored message names exactly one matches row and its sender is
\* userA or userB of that row; a POST that created its message stored a row
\* with the caller as sender and the path's match id.
C14_MessageOfOneMatchBySender ==
    /\ \A x \in messages :
          /\ Cardinality(MatchesWithId(x.matchId)) = 1
          /\ IsParticipant(x.senderId, x.matchId)
    /\ \A m \in MsgReq :
          (msg[m].pc = "send" \/ (MsgDone(m) /\ msg[m].method = "POST"
                                     /\ msg[m].response.status = 200))
          => /\ msg[m].message = m
             /\ \E x \in Stored(m) : x.senderId = msg[m].caller /\ x.matchId = msg[m].matchId

\* userB of a match posted to it and was answered with the stored message.
C14_Witness ==
    \E m \in MsgReq :
        /\ MsgDone(m) /\ msg[m].method = "POST"
        /\ msg[m].response = MessageResponse(m)
        /\ \E x \in MatchesWithId(msg[m].matchId) : x.userBId = msg[m].caller
        /\ Stored(m) # {}

\* C15: the list a participant's GET returns holds every messages row of the
\* match as stored when it is read, each once, and no other row, in ascending
\* createdAt.
C15_FullHistoryOldestFirst ==
    [][\A m \in MsgReq :
          msg[m].pc = "findMany" /\ msg'[m].pc = "done" =>
              LET rows == msg'[m].response.list
                  history == {x \in messages : x.matchId = msg[m].matchId}
              IN /\ msg'[m].response.status = 200
                 /\ {rows[i] : i \in DOMAIN rows} = history
                 /\ Len(rows) = Cardinality(history)
                 /\ \A i \in 1 .. Len(rows) - 1 :
                        rows[i].createdAt <= rows[i + 1].createdAt]_vars

\* A GET returned two messages of different age, the older one first.
C15_Witness ==
    \E m \in MsgReq :
        /\ MsgDone(m) /\ msg[m].method = "GET"
        /\ Len(msg[m].response.list) = 2
        /\ msg[m].response.list[1].createdAt < msg[m].response.list[2].createdAt

\* C33: every broadcast carries a stored message on the channel of its match
\* and is made by a POST that passed validation and the gate, after its
\* row was written; and a POST whose row is stored is answered with that
\* message, whether or not the broadcast was delivered.
C33_BroadcastAfterPersist ==
    /\ \A b \in broadcasts :
          /\ \E x \in messages : x.id = b.payload /\ x.matchId = b.channel
          /\ msg[b.payload].method = "POST"
          /\ ValidBody(msg[b.payload].body)
          /\ msg[b.payload].message = b.payload
    /\ \A m \in MsgReq :
          /\ msg[m].message = m => Stored(m) # {}
          /\ (MsgDone(m) /\ Stored(m) # {}) => msg[m].response = MessageResponse(m)

\* -------------------------------------------------------------- claims: feed
\* The feed request was answered with a list.
FeedServed == feed.pc = "done" /\ feed.response.status = 200
FeedIds == {feed.response.list[i].id : i \in DOMAIN feed.response.list}

\* C16: the liked ids the handler excludes are the targets of the viewer's
\* likes rows as stored when its users row is read, and the list it returns
\* holds neither the viewer nor any of those ids.
C16_FeedExcludesSelfAndLiked ==
    [][/\ feed.pc = "idle" /\ feed'.pc = "loaded" =>
             feed'.likedUserIds =
                 {u \in AuthIds : \E l \in likes : l.fromId = feed'.caller /\ l.toId = u}
       /\ feed.pc = "loaded" /\ feed'.pc = "done" =>
             /\ feed'.response.status = 200
             /\ \A i \in DOMAIN feed'.response.list :
                   /\ feed'.response.list[i].id # feed.caller
                   /\ feed'.response.list[i].id \notin feed.likedUserIds]_vars

\* A viewer who had liked someone got a feed of everyone else.
C16_Witness ==
    /\ FeedServed
    /\ feed.likedUserIds # {}
    /\ FeedIds # {}
    /\ FeedIds = users \ ({feed.caller} \cup feed.likedUserIds)

\* C17: in the returned list every entry's matchScore is at least the next
\* entry's, and every entry carries the score and the reasons
\* calculateMatchScore gives for the viewer and that candidate.
C17_FeedSortedByScore ==
    FeedServed =>
        LET rows == feed.response.list
        IN /\ \A i \in 1 .. Len(rows) - 1 : rows[i].matchScore >= rows[i + 1].matchScore
           /\ \A i \in DOMAIN rows :
                 LET score == calculateMatchScore(profile[feed.caller], profile[rows[i].id])
                 IN /\ rows[i].matchScore = score.score
                    /\ rows[i].matchReasons = score.reasons

\* A feed of two candidates of different score, with reasons attached.
C17_Witness ==
    /\ FeedServed
    /\ Len(feed.response.list) = 2
    /\ feed.response.list[1].matchScore > feed.response.list[2].matchScore
    /\ feed.response.list[1].matchReasons # <<>>

\* C18: no step of the feed request changes the users, likes, matches or
\* messages rows.
C18_FeedReadOnly ==
    [][feed' # feed => UNCHANGED <<users, likes, matches, messages>>]_vars

\* A feed was served from a store that holds a match and likes of the viewer.
C18_Witness ==
    /\ FeedServed
    /\ matches # {}
    /\ \E l \in likes : l.fromId = feed.caller

\* Both calls of the viewer were answered with a list.
FeedServedTwice == FeedServed /\ feed.before.status = 200

\* C32: two feed calls of one viewer against one store state return the same
\* candidates in the same order, candidates of equal score included.
C32_FeedDeterministic ==
    FeedServedTwice => feed.response.list = feed.before.list

\* ------------------------------------------------------- claims: GET /matches
\* The GET /matches request was answered with a list.
ShownServed == shown.pc = "done" /\ shown.response.status = 200

C26_SymmetricVisibility ==
    \A x \in matches :
        LET a == x.userAId
            b == x.userBId
            toA == \E y \in ShownRows(a) : ShownEntry(y, a).id = x.id /\ ShownEntry(y, a).user = b
            toB == \E y \in ShownRows(b) : ShownEntry(y, b).id = x.id /\ ShownEntry(y, b).user = a
        IN /\ toA <=> toB
           /\ x.active => toA /\ toB /\ CanAccess(a, x.id) /\ CanAccess(b, x.id)

\* The match stored with the later liker as userA was shown to userB, and an
\* inactive row of the same pair was not.
C26_Witness ==
    /\ ShownServed
    /\ \E x \in matches :
          /\ x.active /\ x.userBId = shown.caller /\ x.userAId > x.userBId
          /\ \E i \in DOMAIN shown.response.list : shown.response.list[i].id = x.id
    /\ \E x \in matches :
          /\ ~x.active
          /\ ~\E i \in DOMAIN shown.response.list : shown.response.list[i].id = x.id

\* ------------------------------------------------- claims: match, then chat
\* Request r answered isMatch: true with the match of the given id.
Returned(r, id) ==
    /\ Done(r) /\ response[r].status = 200
    /\ response[r].isMatch /\ response[r].match = id

\* C27: when a like request has answered isMatch: true with a match, the
\* gate lets its caller and its target through for that match id, and their
\* list or post is then answered 200; the gate lets nobody through, and no
\* message is stored, for a match id without a matches row that has the
\* caller as userA or userB.
C27_MatchUnlocksGate ==
    [][\A m \in MsgReq :
          /\ msg[m].pc = "findMatch" /\ msg'[m] # msg[m] =>
                /\ (\E r \in Req : /\ Returned(r, msg[m].matchId)
                                   /\ msg[m].caller \in {caller[r], toUserId[r]})
                       => msg'[m].pc \in {"findMany", "create"}
                /\ msg'[m].pc \in {"findMany", "create"} =>
                       \E x \in matches :
                           /\ x.id = msg[m].matchId
                           /\ msg[m].caller \in {x.userAId, x.userBId}
          /\ msg[m].pc = "create" /\ msg'[m] # msg[m] => msg'[m].pc = "send"
          /\ msg[m].pc \in {"findMany", "send"} /\ msg'[m] # msg[m] =>
                msg'[m].response.status = 200
          /\ \A y \in messages' \ messages :
                \E x \in matches :
                    /\ x.id = y.matchId
                    /\ y.senderId \in {x.userAId, x.userBId}]_vars

\* The target of the like that made the match posted to it and was served.
C27_Witness ==
    \E m \in MsgReq, r \in Req :
        /\ Returned(r, msg[m].matchId)
        /\ msg[m].caller = toUserId[r]
        /\ MsgDone(m) /\ msg[m].method = "POST"
        /\ msg[m].response.status = 200

\* ----------------------------------------------------------- claims: erasure
\* The erasure answered 200 for user u.
Erased(u) == erase.pc = "done" /\ erase.response.deleted /\ erase.caller = u
\* A row of any table names u.
Names(u) ==
    \/ u \in users
    \/ \E l \in likes : l.fromId = u \/ l.toId = u
    \/ \E x \in matches : x.userAId = u \/ x.userBId = u
    \/ \E x \in messages : x.senderId = u
    \/ \E o \in owned : o.userId = u
\* u takes part in the match with the given id.
InMatch(u, id) == \E x \in matches : x.id = id /\ (x.userAId = u \/ x.userBId = u)

\* C23: once the erasure of u has answered 200, no users, likes, matches,
\* messages, startups, skill_on_user, offers or looking_for row names u; and
\* every row a step of the erasure removes names u or is a message of a match
\* of u.
C23_ErasureRemovesExactlyOwn ==
    /\ [](\A u \in AuthIds : Erased(u) => ~Names(u))
    /\ [][erase' # erase =>
            /\ \A v \in users \ users' : v = erase.caller
            /\ \A l \in likes \ likes' : l.fromId = erase.caller \/ l.toId = erase.caller
            /\ \A x \in matches \ matches' : x.userAId = erase.caller \/ x.userBId = erase.caller
            /\ \A x \in messages \ messages' :
                  x.senderId = erase.caller \/ InMatch(erase.caller, x.matchId)
            /\ \A o \in owned \ owned' : o.userId = erase.caller]_vars

\* A user whose like had been stored was erased; the like is gone and a like
\* between two other users is still there.
C23_Witness ==
    /\ \E u \in ProfileIds : Erased(u)
    /\ \E r \in Req : caller[r] = erase.caller /\ response[r].status = 200 /\ LikesOf(r) = {}
    /\ \E l \in likes : l.fromId # erase.caller /\ l.toId # erase.caller

\* C24: every matches row has a likes row from userA to userB and one from
\* userB to userA.
C24_MatchOnlyWithBothInterests ==
    \A x \in matches :
        /\ LikeFound(likes, x.userAId, x.userBId)
        /\ LikeFound(likes, x.userBId, x.userAId)

\* C25: no step removes a matches row while a message of that match is stored.
C25_NoMatchDeletedWithHistory ==
    [][\A x \in matches \ matches' : ~\E y \in messages : y.matchId = x.id]_vars

\* C28: a likes row stays as written in every step, except that a step of the
\* erasure of its fromId or of its toId may remove it.
C28_InterestImmutable ==
    [][\A l \in likes :
          \/ l \in likes' /\ ~\E k \in likes' : k.id = l.id /\ k # l
          \/ /\ erase' # erase
             /\ l.fromId = erase.caller \/ l.toId = erase.caller]_vars

\* The erasure removed a like of the erased user; another like was written
\* before and is still stored.
C28_Witness ==
    /\ erase.pc \in {"owned", "user", "done"} /\ erase.caller \in ProfileIds
    /\ \E r \in Req : Done(r) /\ response[r].status = 200 /\ LikesOf(r) = {}
    /\ \E r \in Req : Done(r) /\ response[r].status = 200 /\ LikesOf(r) # {}

\* ----------------------------------------------------------- claims: scoring
\* calculateMatchScore has returned.
Scored == result # NoResult

\* C19: for well-formed profiles the score is an integer in [0, 100] and each
\* term stays within its cap: complementarity <= 40, skill overlap <= 20,
\* location <= 10, availability in [0, 10], completeness <= 5.
C19_ScoreBounded ==
    Scored =>
        /\ result.score \in 0 .. 100
        /\ result.tagScore \in 0 .. 40
        /\ result.skillScore \in 0 .. 20
        /\ result.locationScore \in 0 .. 10
        /\ result.availabilityScore \in 0 .. 10 * Units
        /\ result.completenessScore \in 0 .. 5 * Units

\* Every term at its cap, the uncapped tag and skill products above theirs.
C19_Witness ==
    /\ Scored
    /\ TagScore_NoCap(profile[1], profile[2]) > 40
    /\ SkillOverlap(profile[1], profile[2]) * 4 > 20
    /\ result.tagScore = 40
    /\ result.skillScore = 20
    /\ result.locationScore = 10
    /\ result.availabilityScore = 10 * Units
    /\ result.completenessScore = 5 * Units

\* The pair of the documented example.
ExampleViewer ==
    [offers |-> <<"Backend Development">>, lookingFor |-> <<"Marketing">>,
     skills |-> <<"React", "Node.js">>, location |-> "SF", availability |-> 80,
     bio |-> FALSE, headline |-> FALSE]
ExampleCandidate(bio, headline) ==
    [offers |-> <<"Marketing">>, lookingFor |-> <<"Backend Development">>,
     skills |-> <<"React">>, location |-> "SF", availability |-> 85,
     bio |-> bio, headline |-> headline]

\* C20: for the documented pair the terms are complementarity 16, skill
\* overlap 4, location 10, availability 9.5, and the score is
\* 39.5 + completeness rounded to the nearest integer: 43, 44 or 45 for a
\* candidate with neither, one or both of bio and headline.
C20_ScoringExample ==
    \A bio \in BOOLEAN, headline \in BOOLEAN :
        (Scored /\ profile[1] = ExampleViewer /\ profile[2] = ExampleCandidate(bio, headline)) =>
            /\ result.tagScore = 16
            /\ result.skillScore = 4
            /\ result.locationScore = 10
            /\ 2 * result.availabilityScore = 19 * Units
            /\ result.score = IF bio /\ headline THEN 45
                              ELSE IF bio \/ headline THEN 44
                              ELSE 43

\* The example with a complete candidate: 39.5 + 5 = 44.5 rounds to 45.
C20_Witness ==
    /\ Scored
    /\ profile[1] = ExampleViewer
    /\ profile[2] = ExampleCandidate(TRUE, TRUE)
    /\ result.score = 45

\* The entries of xs that occur in ys, counted one by one.
RECURSIVE Appearing(_, _)
Appearing(xs, ys) ==
    IF xs = <<>> THEN 0
    ELSE (IF \E j \in DOMAIN ys : ys[j] = Head(xs) THEN 1 ELSE 0) + Appearing(Tail(xs), ys)

\* C29: the tag term is min(40, 8 * (viewer offers that appear in the
\* candidate's lookingFor + viewer lookingFor that appear in the candidate's
\* offers)), each list entry counted, and is never above 40.
C29_TagComplementarity ==
    Scored =>
        LET n == Appearing(profile[1].offers, profile[2].lookingFor)
                 + Appearing(profile[1].lookingFor, profile[2].offers)
        IN /\ result.tagScore = (IF 8 * n < 40 THEN 8 * n ELSE 40)
           /\ result.tagScore <= 40

\* The viewer offers one tag twice and the candidate looks for it: both
\* entries count, 16 points.
C29_Witness ==
    /\ Scored
    /\ profile[1].offers = <<"Backend Development", "Backend Development">>
    /\ profile[2].lookingFor = <<"Backend Development">>
    /\ profile[1].lookingFor = <<>>
    /\ result.tagScore = 16

\* C30: with both availability values present (0 included) the term is
\* max(0, 10 - |difference| / 10), and it is 0 when one of them is absent.
C30_AvailabilityTerm ==
    Scored =>
        LET a == profile[1].availability
            b == profile[2].availability
            diff == IF a >= b THEN a - b ELSE b - a
        IN IF a # NoAvailability /\ b # NoAvailability
             THEN 10 * result.availabilityScore =
                     (IF 100 >= diff THEN (100 - diff) * Units ELSE 0)
             ELSE result.availabilityScore = 0

\* The texts of a reasons list, counts left out.
ReasonTexts(rs) == [i \in DOMAIN rs |-> rs[i].text]

\* C31: the reasons are the first 3, in the order complementarity, skill
\* overlap, location, availability, completeness, of the reasons whose
\* threshold holds (complementarity term > 0, skill term > 0, location term
\* = 10, availability term > 7, completeness term > 4); with a complementarity
\* term above 0 the first reason is the complementarity reason.
C31_ReasonsByThreshold ==
    Scored =>
        LET due == (IF result.tagScore > 0 THEN <<"matching skills/offers">> ELSE <<>>)
                   \o (IF result.skillScore > 0 THEN <<"shared skills">> ELSE <<>>)
                   \o (IF result.locationScore = 10 THEN <<"Same location">> ELSE <<>>)
                   \o (IF result.availabilityScore > 7 * Units
                         THEN <<"Similar availability">> ELSE <<>>)
                   \o (IF result.completenessScore > 4 * Units
                         THEN <<"Complete profile">> ELSE <<>>)
        IN /\ Len(result.reasons) <= 3
           /\ ReasonTexts(result.reasons) = Slice3(due)
           /\ result.tagScore > 0 =>
                 /\ Len(result.reasons) > 0
                 /\ result.reasons[1].text = "matching skills/offers"

\* ----------------------------------------------------- claims: profile update
\* The names a profile update asks for.
Asked(p) == {SkillNames(upd[p].skills)[i] : i \in DOMAIN SkillNames(upd[p].skills)}

\* The update names each of its skills once.
NamedOnce(p) == Cardinality(Asked(p)) = Len(SkillNames(upd[p].skills))

\* C34: however profile updates interleave, there is at most one skills row
\* per name and at most one association per user and skill, and an update
\* that names skills, each once, is answered 200 with exactly those skills,
\* each of which has its one skills row.
C34_SkillGetOrCreate ==
    /\ \A a, b \in skills : a.name = b.name => a = b
    /\ \A a, b \in skillOnUser : (a.userId = b.userId /\ a.skillId = b.skillId) => a = b
    /\ \A p \in UpdReq :
          (upd[p].pc = "done" /\ upd[p].caller # NoUser /\ HasSkills(upd[p].skills)
             /\ NamedOnce(p)) =>
                /\ upd[p].response.status = 200
                /\ \A name \in Asked(p) : Cardinality(SkillRows(name)) = 1

\* ------------------------------------------------------- claims: invitations
InvServed == inv.pc = "done" /\ inv.response.status = 200
\* The users an invitations list names.
Inviters(rows) == {rows[i].fromId : i \in DOMAIN rows}

\* C36: the likes the handler reads are the stored likes sent to the caller,
\* each once, and the list it returns is those of them whose sender has no
\* match row with the caller, active or not. So a user who liked the caller
\* and was not liked back is in the list, and a user matched with the caller
\* is not in it and is, while the match is active, in the caller's matches.
C36_InvitationsUntilMatched ==
    [][/\ (inv.pc = "idle" /\ inv'.pc = "matches") =>
             /\ {inv'.receivedLikes[i] : i \in DOMAIN inv'.receivedLikes}
                   = {l \in likes : l.toId = inv'.caller}
             /\ Len(inv'.receivedLikes) = Cardinality({l \in likes : l.toId = inv'.caller})
       /\ (inv.pc = "matches" /\ inv'.pc = "done") =>
             LET u == inv.caller
                 rows == inv'.response.list
                 Matched(x) == \E m \in matches :
                                  \/ m.userAId = u /\ m.userBId = x
                                  \/ m.userAId = x /\ m.userBId = u
             IN /\ inv'.response.status = 200
                /\ \A i, j \in DOMAIN rows : i # j => rows[i] # rows[j]
                /\ {rows[i] : i \in DOMAIN rows}
                      = {inv.receivedLikes[i] : i \in
                           {k \in DOMAIN inv.receivedLikes :
                              ~Matched(inv.receivedLikes[k].fromId)}}
                /\ \A x \in Inviters(inv.receivedLikes) :
                      /\ ~LikeFound(likes, u, x) => x \in Inviters(rows)
                      /\ Matched(x) => x \notin Inviters(rows)
                      /\ (\E m \in matches : m.active /\ {m.userAId, m.userBId} = {u, x}) =>
                            \E m \in ShownRows(u) : ShownEntry(m, u).user = x]_vars

\* A user liked the caller and was liked back: the match keeps that like out
\* of the invitations the caller is served.
C36_Witness ==
    /\ InvServed
    /\ inv.receivedLikes # <<>>
    /\ inv.response.list = <<>>
    /\ \E r \in Req : Done(r) /\ caller[r] = inv.caller /\ response[r].isMatch

\* ------------------------------------------------ claims: unauthenticated calls
\* No table and no channel changes in the step.
StoreUntouched ==
    UNCHANGED <<users, likes, matches, messages, broadcasts, owned, profile,
                skills, skillOnUser>>

\* C35: a request to /like, /recommendations, /matches, the messages route,
\* /invitations or /delete-account that carries no session is answered 401
\* 'Unauthorized' by its first step, which runs no storage statement and
\* changes no stored row.
C35_UnauthenticatedIs401 ==
    [][/\ \A r \in Req :
             (pc[r] = "idle" /\ pc'[r] # "idle" /\ caller'[r] = NoUser) =>
                 /\ pc'[r] = "done"
                 /\ response'[r] = ErrorResponse(401, "Unauthorized")
                 /\ StoreUntouched
       /\ \A m \in MsgReq :
             (msg[m].pc = "idle" /\ msg'[m].pc # "idle" /\ msg'[m].caller = NoUser) =>
                 /\ msg'[m].pc = "done"
                 /\ msg'[m].response = ErrorMsgResponse(401, "Unauthorized")
                 /\ StoreUntouched
       /\ (feed.pc = "idle" /\ feed'.pc # "idle" /\ feed'.caller = NoUser) =>
                 /\ feed'.pc = "done"
                 /\ feed'.response = ErrorFeedResponse(401, "Unauthorized")
                 /\ StoreUntouched
       /\ (shown.pc = "idle" /\ shown'.pc # "idle" /\ shown'.caller = NoUser) =>
                 /\ shown'.pc = "done"
                 /\ shown'.response = [status |-> 401, error |-> "Unauthorized", list |-> <<>>]
                 /\ StoreUntouched
       /\ (inv.pc = "idle" /\ inv'.pc # "idle" /\ inv'.caller = NoUser) =>
                 /\ inv'.pc = "done"
                 /\ inv'.response = [status |-> 401, error |-> "Unauthorized", list |-> <<>>]
                 /\ StoreUntouched
       /\ (erase.pc = "idle" /\ erase'.pc # "idle" /\ erase'.caller = NoUser) =>
                 /\ erase'.pc = "done"
                 /\ erase'.response = ErrorEraseResponse(401, "Unauthorized")
                 /\ StoreUntouched]_vars

\* With two likes and a match in the store, a DELETE /delete-account without
\* a session was answered 401; the rows are still there.
C35_Witness ==
    /\ matches # {}
    /\ erase.pc = "done" /\ erase.caller = NoUser /\ erase.response.status = 401
    /\ Cardinality(likes) = 2

\* ------------------------------------------- claims: messages and interest
\* User a has liked user b: a POST /like of a for b holds its likes row.
ExpressedInterest(a, b) ==
    \E r \in Req : caller[r] = a /\ toUserId[r] = b /\ like[r] # 0

\* C37: every stored message belongs to a match of which its sender is a
\* participant, and the sender and the other participant have each liked
\* the other; as long as no erasure has started, both likes rows are stored.
C37_MessagedOnlyAfterMutualInterest ==
    \A x \in messages :
        \E m \in matches :
            /\ m.id = x.matchId
            /\ x.senderId \in {m.userAId, m.userBId}
            /\ m.userAId # m.userBId
            /\ ExpressedInterest(m.userAId, m.userBId)
            /\ ExpressedInterest(m.userBId, m.userAId)
            /\ erase.pc = "idle" =>
                  /\ LikeFound(likes, m.userAId, m.userBId)
                  /\ LikeFound(likes, m.userBId, m.userAId)

\* Two users liked each other and one of them posted a message to the match;
\* an erasure is under way.
C37_Witness ==
    /\ Stored(1) # {}
    /\ \E r \in Req : Done(r) /\ response[r].isMatch
                        /\ \E x \in Stored(1) : x.matchId = response[r].match
    /\ erase.pc \notin {"idle", "done"}

====
